---------------------------- MODULE Spec2Model ----------------------------
(***************************************************************************)
(* Model of the glTF/GLB optimization pipeline of the immersive-web-sdk    *)
(* (packages/vite-plugin-gltf-optimizer): the compression parameter        *)
(* mapper, the preset and options resolver, the processor's entry points   *)
(* and the bundler plugin (lifecycle hooks, namespacing of the emitted     *)
(* resources, the shared KTX2 cache and the cleanup of original files).    *)
(*                                                                         *)
(* Conventions.                                                            *)
(*  - A JavaScript string is a sequence of one-character strings, so that  *)
(*    startsWith, endsWith, replace, basename and join are computed as the *)
(*    code computes them.                                                  *)
(*  - A JavaScript number of the options is an integer count of            *)
(*    thousandths (0.75 is 750); NaN and the infinities are tagged values  *)
(*    in the options resolver.                                             *)
(*  - A Buffer is a record that describes its content; two buffers hold    *)
(*    the same bytes exactly when the records are equal.                   *)
(***************************************************************************)
EXTENDS Integers, Sequences, FiniteSets, TLC

VARIABLES
    \* ---- compression mapper (pure functions applied to drawn inputs)
    mapIn,      \* the inputs drawn for the mapper functions
    mapOut,     \* the results of the last application, or NoValue
    \* ---- options resolver
    userOptions, \* the partial options object handed to optimizeGLTF
    resolved,    \* the record processOptions / validateOptions produced
    resolverPc,  \* "start", "processed", "validated" or "threw"
    \* ---- namespacing step applied to drawn results of the transform engine
    remapIn,     \* [gltfName, buffer, resources] as processFile returned them
    remapOut,    \* [buffer, resources] after the namespacing step, or NoValue
    \* ---- processBuffer applied to drawn inputs
    procIn,      \* [buffer, fileName, options, fault]
    procOut,     \* [threw, value] of the call, or NoValue
    \* ---- the plugin instance (the closure of optimizeGLTF)
    config,                 \* the resolved config, NoValue while undefined
    processedOptions,       \* the resolved options (textures.mode is mutable)
    processor,              \* "undefined", "constructed" or "initialized"
    isInitialized,
    ktxAvailable,           \* Null, Bool(TRUE) or Bool(FALSE)
    warnedAboutKTX,
    dependencyFiles,        \* Set<string>
    originalFilesToCleanup, \* Set<string>
    optimizationStats,      \* OptimizationStat[]
    sharedKTXCache,         \* Map: final bundle path -> [rank, buffer]
    \* ---- the plugin's environment
    bundle,      \* the bundle object of the current build: path -> entry
    disk,        \* the paths of the files in the output directory
    builds,      \* the number of generateBundle calls so far
    \* ---- observations
    trace,       \* the last generateBundle call: its inputs and what it did
    ktx2Assets,  \* the public-source assets processed with a .ktx2 resource
    \* ---- buildStart taken in steps
    ktxProbe     \* the awaited checkKTXAvailable call, NoValue when not modelled

NoValue == [t |-> "none"]

-----------------------------------------------------------------------------
(***************************************************************************)
(* Strings                                                                 *)
(***************************************************************************)

\* String.prototype.startsWith
StartsWith(s, p) ==
    /\ Len(s) >= Len(p)
    /\ SubSeq(s, 1, Len(p)) = p

\* String.prototype.endsWith
EndsWith(s, p) ==
    /\ Len(s) >= Len(p)
    /\ SubSeq(s, Len(s) - Len(p) + 1, Len(s)) = p

\* the substring test a non-anchored regular expression of literals makes
Contains(s, p) ==
    \E i \in 1..(Len(s) - Len(p) + 1) : SubSeq(s, i, i + Len(p) - 1) = p

UpperCase == {"A", "B", "G", "I", "K", "L", "N", "P", "T", "X"}

LowerChar(c) ==
    CASE c = "A" -> "a" [] c = "B" -> "b" [] c = "G" -> "g" [] c = "I" -> "i"
      [] c = "K" -> "k" [] c = "L" -> "l" [] c = "N" -> "n" [] c = "P" -> "p"
      [] c = "T" -> "t" [] c = "X" -> "x" [] OTHER -> c

\* String.prototype.toLowerCase
ToLowerCase(s) == [i \in 1..Len(s) |-> LowerChar(s[i])]

\* the characters of a string literal, for the literals of the code
S_dotSlash == <<".", "/">>
S_data     == <<"d", "a", "t", "a", ":">>
S_bin      == <<".", "b", "i", "n">>
S_ktx2     == <<".", "k", "t", "x", "2">>
S_gltf     == <<".", "g", "l", "t", "f">>
S_glb      == <<".", "g", "l", "b">>
S_png      == <<".", "p", "n", "g">>
S_jpg      == <<".", "j", "p", "g">>
S_jpeg     == <<".", "j", "p", "e", "g">>
S_binDir   == <<"_", "b", "i", "n", "/">>

\* the greatest index of character c in s, 0 when there is none
LastIndexOf(s, c) ==
    IF \E i \in 1..Len(s) : s[i] = c
    THEN CHOOSE i \in 1..Len(s) : s[i] = c /\ \A j \in (i + 1)..Len(s) : s[j] # c
    ELSE 0

\* the least index of character c in s, 0 when there is none
IndexOf(s, c) ==
    IF \E i \in 1..Len(s) : s[i] = c
    THEN CHOOSE i \in 1..Len(s) : s[i] = c /\ \A j \in 1..(i - 1) : s[j] # c
    ELSE 0

\* uri.replace(/^\.\//, '')
StripDotSlash(s) ==
    IF StartsWith(s, S_dotSlash) THEN SubSeq(s, 3, Len(s)) ELSE s

\* s.replace(/\.[^.]+$/i, ''): the last dot and what follows it, when
\* something follows it
StripExt(s) ==
    LET i == LastIndexOf(s, ".")
    IN  IF i > 0 /\ i < Len(s) THEN SubSeq(s, 1, i - 1) ELSE s

\* s without its trailing slashes
RECURSIVE StripTrailingSlashes(_)
StripTrailingSlashes(s) ==
    IF s # <<>> /\ s[Len(s)] = "/"
    THEN StripTrailingSlashes(SubSeq(s, 1, Len(s) - 1))
    ELSE s

\* path.posix.basename(p)
PosixBasename(p) ==
    LET q == StripTrailingSlashes(p)
    IN  SubSeq(q, LastIndexOf(q, "/") + 1, Len(q))

\* path.extname(p): from the last dot of the base name, unless the base name
\* starts with it
PosixExtname(p) ==
    LET b == PosixBasename(p)
        i == LastIndexOf(b, ".")
    IN  IF i > 1 THEN SubSeq(b, i, Len(b)) ELSE <<>>

\* path.basename(p, ext)
PosixBasenameExt(p, ext) ==
    LET b == PosixBasename(p)
    IN  IF ext # <<>> /\ b # ext /\ EndsWith(b, ext)
        THEN SubSeq(b, 1, Len(b) - Len(ext)) ELSE b

\* path.dirname(p)
PosixDirname(p) ==
    LET q == StripTrailingSlashes(p)
        i == LastIndexOf(q, "/")
    IN  IF p = <<>> THEN <<".">>
        ELSE IF q = <<>> THEN <<"/">>
        ELSE IF i = 0 THEN <<".">>
        ELSE IF StripTrailingSlashes(SubSeq(q, 1, i)) = <<>> THEN <<"/">>
        ELSE StripTrailingSlashes(SubSeq(q, 1, i))

\* the segments of p between its slashes
RECURSIVE SplitSlash(_)
SplitSlash(p) ==
    LET i == IndexOf(p, "/")
    IN  IF i = 0 THEN <<p>>
        ELSE <<SubSeq(p, 1, i - 1)>> \o SplitSlash(SubSeq(p, i + 1, Len(p)))

\* the segments joined with slashes
RECURSIVE JoinSlash(_)
JoinSlash(segs) ==
    IF segs = <<>> THEN <<>>
    ELSE IF Len(segs) = 1 THEN segs[1]
    ELSE segs[1] \o <<"/">> \o JoinSlash(Tail(segs))

\* normalizeString of path.posix: "." and empty segments are dropped and
\* ".." removes the segment before it (kept above the root of a relative path)
RECURSIVE NormalizeSegments(_, _, _)
NormalizeSegments(segs, acc, allowAboveRoot) ==
    IF segs = <<>> THEN acc
    ELSE LET h == Head(segs)
         IN  IF h = <<>> \/ h = <<".">>
             THEN NormalizeSegments(Tail(segs), acc, allowAboveRoot)
             ELSE IF h = <<".", ".">>
             THEN IF acc # <<>> /\ acc[Len(acc)] # <<".", ".">>
                  THEN NormalizeSegments(Tail(segs), SubSeq(acc, 1, Len(acc) - 1),
                                         allowAboveRoot)
                  ELSE IF allowAboveRoot
                  THEN NormalizeSegments(Tail(segs), Append(acc, h), allowAboveRoot)
                  ELSE NormalizeSegments(Tail(segs), acc, allowAboveRoot)
             ELSE NormalizeSegments(Tail(segs), Append(acc, h), allowAboveRoot)

\* the end of path.posix.normalize: body is the normalized string of the
\* segments
NormalizedPath(isAbsolute, trailing, body) ==
    LET withDot == IF body = <<>> /\ ~isAbsolute THEN <<".">> ELSE body
        withTrail == IF body # <<>> /\ trailing THEN withDot \o <<"/">>
                     ELSE IF body = <<>> /\ ~isAbsolute /\ trailing
                     THEN <<".", "/">> ELSE withDot
    IN  IF isAbsolute THEN <<"/">> \o withTrail ELSE withTrail

\* path.posix.normalize(p)
PosixNormalize(p) ==
    IF p = <<>> THEN <<".">>
    ELSE NormalizedPath(p[1] = "/", p[Len(p)] = "/",
                        JoinSlash(NormalizeSegments(SplitSlash(p), <<>>,
                                                    p[1] # "/")))

\* path.posix.join(a, b)
PosixJoin(a, b) ==
    IF a = <<>> /\ b = <<>> THEN <<".">>
    ELSE IF a = <<>> THEN PosixNormalize(b)
    ELSE IF b = <<>> THEN PosixNormalize(a)
    ELSE PosixNormalize(a \o <<"/">> \o b)

-----------------------------------------------------------------------------
(***************************************************************************)
(* Compression mapper                                                      *)
(***************************************************************************)

\* fixed-point unit: an option number x is held as the integer x * Milli
Milli == 10 * 100

\* a mapper that does not clamp
Clamp01_None(x) == x

\* Math.max(0, Math.min(1, x))
Clamp01(x) == IF x < 0 THEN 0 ELSE IF x > Milli THEN Milli ELSE x

\* Math.round(n / d) for d > 0: floor(n / d + 1/2)
RoundDiv(n, d) == (2 * n + d) \div (2 * d)

\* CompressionMapper.toETC1SParams(quality).quality, 0..255
toETC1SParams(quality) == RoundDiv(Clamp01(quality) * 255, Milli)

\* CompressionMapper.toUASTCParams(quality).quality, 0..4 (0 is best)
toUASTCParams(quality) == RoundDiv((Milli - Clamp01(quality)) * 4, Milli)

\* the words of computeTextureRank's file-name test
W_normal    == <<"n", "o", "r", "m", "a", "l">>
W_roughness == <<"r", "o", "u", "g", "h", "n", "e", "s", "s">>
W_metallic  == <<"m", "e", "t", "a", "l", "l", "i", "c">>
W_orm       == <<"o", "r", "m">>
W_occlusion == <<"o", "c", "c", "l", "u", "s", "i", "o", "n">>
W_specular  == <<"s", "p", "e", "c", "u", "l", "a", "r">>
W_bump      == <<"b", "u", "m", "p">>
W_height    == <<"h", "e", "i", "g", "h", "t">>

DetailWords ==
    {W_normal, W_roughness, W_metallic, W_orm, W_occlusion, W_specular,
     W_bump, W_height}

\* /(normal|roughness|...|height)/i.test(name)
MatchesDetailWord(name) ==
    \E w \in DetailWords : Contains(ToLowerCase(name), w)

\* the variable `intended` of computeTextureRank
IntendedMode(mode, filename) ==
    IF mode = "uastc" THEN "uastc"
    ELSE IF mode = "etc1s" THEN "etc1s"
    ELSE IF mode \in {"mixed", "auto"}
         THEN (IF MatchesDetailWord(ToLowerCase(filename))
               THEN "uastc" ELSE "etc1s")
         ELSE "etc1s"

\* RankOfIntended without the 10000 that lifts every UASTC rank above the
\* ETC1S ranks
RankOfIntended_NoOffset(intended, quality) ==
    LET etcQ       == toETC1SParams(quality)
        uastcLevel == toUASTCParams(quality)
    IN  IF intended = "uastc"
        THEN 255 * ((4 - uastcLevel) * 100) + etcQ
        ELSE 255 * etcQ

\* the rank of computeTextureRank for an intended mode, multiplied by 255 so
\* that the term etcQ / 255 of the UASTC rank stays an integer
RankOfIntended(intended, quality) ==
    LET etcQ       == toETC1SParams(quality)
        uastcLevel == toUASTCParams(quality)
    IN  IF intended = "uastc"
        THEN 255 * (10000 + (4 - uastcLevel) * 100) + etcQ
        ELSE 255 * etcQ

\* computeTextureRank(filename) under textures.mode and textures.quality
computeTextureRank(mode, quality, filename) ==
    RankOfIntended(IntendedMode(mode, filename), quality)

-----------------------------------------------------------------------------
(***************************************************************************)
(* Options values: a JavaScript value of the options object is a tagged    *)
(* record; an object is a function from its own keys to values.             *)
(***************************************************************************)

Undefined == [t |-> "undefined"]
Num(v)    == [t |-> "num", v |-> v]
NaN       == [t |-> "nan"]
PosInf    == [t |-> "inf", sign |-> 1]
NegInf    == [t |-> "inf", sign |-> -1]
Str(s)    == [t |-> "str", s |-> s]
Bool(b)   == [t |-> "bool", b |-> b]
Arr(a)    == [t |-> "arr", a |-> a]
RegExp(r) == [t |-> "regexp", src |-> r]
Obj(o)    == [t |-> "obj", o |-> o]

EmptyObj == [k \in {} |-> Undefined]

\* typeof value === 'object' && value !== null && !Array.isArray(value)
\*   && !(value instanceof RegExp)
IsPlainObject(v) == v.t = "obj"

\* x < c, x > c and x <= c of JavaScript for a number x and a finite c
\* (every comparison with NaN is false)
JsLess(x, c) ==
    CASE x.t = "num" -> x.v < c
      [] x.t = "inf" -> x.sign < 0
      [] OTHER -> FALSE

JsGreater(x, c) ==
    CASE x.t = "num" -> x.v > c
      [] x.t = "inf" -> x.sign > 0
      [] OTHER -> FALSE

JsLessEq(x, c) ==
    CASE x.t = "num" -> x.v <= c
      [] x.t = "inf" -> x.sign < 0
      [] OTHER -> FALSE

\* isNaN(x) for a number or undefined
JsIsNaN(x) == x.t \in {"nan", "undefined"}

\* Number.isInteger(x)
JsIsInteger(x) == x.t = "num" /\ x.v % Milli = 0

-----------------------------------------------------------------------------
(***************************************************************************)
(* Preset and options resolver (PresetManager)                             *)
(***************************************************************************)

\* PresetManager.getPreset(level)
getPreset(level) ==
    CASE level = "light" ->
           [geometry |-> Obj([compress |-> Str("quantize"), quality |-> Num(900),
                              precision |-> Num(950), speed |-> Num(800)]),
            textures |-> Obj([mode |-> Str("auto"), quality |-> Num(850),
                              maxSize |-> Num(2048 * Milli)])]
      [] level = "aggressive" ->
           [geometry |-> Obj([compress |-> Str("draco"), quality |-> Num(500),
                              precision |-> Num(600), speed |-> Num(300)]),
            textures |-> Obj([mode |-> Str("auto"), quality |-> Num(550),
                              maxSize |-> Num(512 * Milli)])]
      [] OTHER ->
           [geometry |-> Obj([compress |-> Str("meshopt"), quality |-> Num(750),
                              precision |-> Num(800), speed |-> Num(500)]),
            textures |-> Obj([mode |-> Str("auto"), quality |-> Num(750),
                              maxSize |-> Num(1024 * Milli)])]

\* the object baseDefaults of processOptions (exclude: undefined is a key of
\* the literal, which deepMerge skips)
baseDefaults ==
    [level    |-> Str("medium"),
     include  |-> RegExp("gltf|glb"),
     exclude  |-> Undefined,
     verbose  |-> Bool(FALSE),
     geometry |-> Obj([compress |-> Str("meshopt"), quality |-> Num(750),
                       speed |-> Num(500), precision |-> Num(800)]),
     textures |-> Obj([mode |-> Str("auto"), quality |-> Num(750),
                       maxSize |-> Num(1024 * Milli),
                       etc1sPatterns |-> Arr(<<>>),
                       uastcPatterns |-> Arr(<<>>)])]

\* a merge in which undefined is assigned like any other value
IsSkipped_Never(value) == FALSE

\* if (value === undefined) continue
IsSkipped(value) == value = Undefined

\* one round of deepMerge's outer loop: the entries of obj merged into result
RECURSIVE MergeInto(_, _)
MergeInto(result, obj) ==
    LET set == {k \in DOMAIN obj : ~IsSkipped(obj[k])}
    IN  [k \in (DOMAIN result) \cup set |->
           IF k \in set
           THEN IF IsPlainObject(obj[k])
                THEN LET prev == IF k \in DOMAIN result /\ IsPlainObject(result[k])
                                 THEN result[k].o ELSE EmptyObj
                     IN  Obj(MergeInto(MergeInto(EmptyObj, prev), obj[k].o))
                ELSE obj[k]
           ELSE result[k]]

\* PresetManager.deepMerge(...objects)
RECURSIVE deepMerge(_)
deepMerge(objects) ==
    IF objects = <<>> THEN EmptyObj
    ELSE MergeInto(deepMerge(SubSeq(objects, 1, Len(objects) - 1)),
                   objects[Len(objects)])

\* obj[key], undefined when the object has no such key
Get(obj, key) == IF key \in DOMAIN obj THEN obj[key] ELSE Undefined

\* PresetManager.processOptions(options)
processOptions(options) ==
    LET level        == Get(options, "level")
        \* if (options.level): undefined and the empty string are falsy
        presetConfig == IF level.t = "str" /\ level.s # ""
                        THEN getPreset(level.s) ELSE EmptyObj
        merged       == deepMerge(<<baseDefaults, presetConfig, options>>)
    IN  IF Get(options, "exclude") = Undefined
           /\ Get(presetConfig, "exclude") = Undefined
        THEN [k \in (DOMAIN merged) \cup {"exclude"} |->
                IF k = "exclude" THEN Undefined ELSE merged[k]]
        ELSE merged

\* the range test of validateOptions without its isNaN(x) disjunct
InvalidUnitInterval_NoNaN(x) == JsLess(x, 0) \/ JsGreater(x, Milli)

\* the tests of validateOptions: x < 0 || x > 1 || isNaN(x), and
\* x <= 0 || !Number.isInteger(x)
InvalidUnitInterval(x) == JsLess(x, 0) \/ JsGreater(x, Milli) \/ JsIsNaN(x)

\* the test of maxSize without its Number.isInteger disjunct
InvalidMaxSize_NoInteger(x) == JsLessEq(x, 0)

InvalidMaxSize(x) == JsLessEq(x, 0) \/ ~JsIsInteger(x)

\* reading options.geometry.quality throws a TypeError unless
\* options.geometry and options.textures are objects
ValidateThrows(options) ==
    \/ Get(options, "geometry").t # "obj"
    \/ Get(options, "textures").t # "obj"

\* the assignments of validateOptions to one nested object: each checked
\* field that is invalid is set to its default, every other key is kept
ResetInvalid(o, unitDefaults, checkMaxSize) ==
    LET bad == {k \in DOMAIN unitDefaults : InvalidUnitInterval(Get(o, k))}
               \cup (IF checkMaxSize /\ InvalidMaxSize(Get(o, "maxSize"))
                     THEN {"maxSize"} ELSE {})
    IN  [k \in (DOMAIN o) \cup bad |->
           IF k \notin bad THEN o[k]
           ELSE IF k \in DOMAIN unitDefaults THEN Num(unitDefaults[k])
           ELSE Num(1024 * Milli)]

\* PresetManager.validateOptions(options): the options object after the call
validateOptions(options) ==
    [options EXCEPT
       !.geometry = Obj(ResetInvalid(options.geometry.o,
                          [quality |-> 750, speed |-> 500, precision |-> 800],
                          FALSE)),
       !.textures = Obj(ResetInvalid(options.textures.o,
                          [quality |-> 750], TRUE))]

-----------------------------------------------------------------------------
(***************************************************************************)
(* Buffers, glTF JSON and resource maps                                    *)
(*                                                                         *)
(* The text of a .gltf file is [form |-> "json", canonical, buffers,       *)
(* images, body]: buffers and images are the sequences of the uri strings  *)
(* of buffers[] and images[] (the empty string for an entry without uri),  *)
(* body stands for the rest of the document, and canonical says that the   *)
(* text is what JSON.stringify writes.  A Record<string, Buffer> is a      *)
(* sequence of [uri, buf] in insertion order, with pairwise distinct uris. *)
(***************************************************************************)

\* JSON.parse(buffer.toString('utf8')) throws unless the bytes are JSON text
JsonParseThrows(buffer) == buffer.form # "json"

\* JSON.parse(buffer.toString('utf8'))
JsonParse(buffer) ==
    [buffers |-> buffer.buffers, images |-> buffer.images, body |-> buffer.body]

\* Buffer.from(JSON.stringify(json))
JsonStringify(json) ==
    [form |-> "json", canonical |-> TRUE, buffers |-> json.buffers,
     images |-> json.images, body |-> json.body]

\* uri && !uri.startsWith('data:')
IsExternalUri(uri) == uri # <<>> /\ ~StartsWith(uri, S_data)

\* Object.keys(resources)
Keys(resources) == {resources[i].uri : i \in 1..Len(resources)}

\* the place of key uri in resources
IndexOfKey(resources, uri) ==
    (CHOOSE i \in 1..Len(resources) : resources[i].uri = uri)

\* resources[uri] = buf: an existing key keeps its place
Assign(resources, uri, buf) ==
    IF uri \in Keys(resources)
    THEN [resources EXCEPT ![IndexOfKey(resources, uri)] = [uri |-> uri, buf |-> buf]]
    ELSE Append(resources, [uri |-> uri, buf |-> buf])

\* Object.keys(resources).some((uri) => uri.toLowerCase().endsWith('.ktx2'))
Ktx2Emitted(resources) ==
    \E u \in Keys(resources) : EndsWith(ToLowerCase(u), S_ktx2)

-----------------------------------------------------------------------------
(***************************************************************************)
(* The processor (GLTFProcessor) over the transform library.               *)
(*                                                                         *)
(* A document of the library is [buffers, images, applied]: images is a    *)
(* sequence of [uri, slot, enc] (enc is "source" until a transform encodes  *)
(* the texture) and applied is the sequence of the transforms applied so   *)
(* far.  The body of a glTF text is [slots, applied].  The library may     *)
(* throw at any stage; the stage is the parameter fault.                   *)
(***************************************************************************)

\* CompressionMapper.toQuantizationBits(precision)
toQuantizationBits(precision) ==
    LET pr == Clamp01(precision)
    IN  [quantizePosition |-> 10 + RoundDiv(pr * 6, Milli),
         quantizeNormal   |-> 8 + RoundDiv(pr * 2, Milli),
         quantizeTexcoord |-> 10 + RoundDiv(pr * 2, Milli),
         quantizeColor    |-> 8,
         quantizeWeight   |-> 8,
         quantizeGeneric  |-> 10 + RoundDiv(pr * 2, Milli)]

\* CompressionMapper.toDracoParams(quality, speed, precision)
toDracoParams(quality, speed, precision) ==
    LET q  == Clamp01(quality)
        sp == Clamp01(speed)
        pr == Clamp01(precision)
    IN  [method      |-> IF q > 500 THEN "edgebreaker" ELSE "sequential",
         encodeSpeed |-> RoundDiv(sp * 10, Milli),
         decodeSpeed |-> RoundDiv(q * 10, Milli),
         quantizationBits |->
            [POSITION   |-> 10 + RoundDiv(pr * 6, Milli),
             NORMAL     |-> 8 + RoundDiv(pr * 2, Milli),
             TEXCOORD_0 |-> 10 + RoundDiv(pr * 2, Milli)]]

\* CompressionMapper.toMeshoptParams(quality)
toMeshoptParams(quality) ==
    [level |-> IF Clamp01(quality) > 600 THEN "medium" ELSE "high"]

AllSlots ==
    {"baseColorTexture", "emissiveTexture", "normalTexture",
     "metallicRoughnessTexture", "occlusionTexture", "sheenColorTexture"}

\* a slot pattern is the set of the slots it matches
\* /(baseColorTexture|emissiveTexture|diffuseTexture)/i
DefaultEtc1sSlots == {"baseColorTexture", "emissiveTexture", "diffuseTexture"}

\* /(normalTexture|metallicRoughnessTexture|occlusionTexture)/i
DefaultUastcSlots ==
    {"normalTexture", "metallicRoughnessTexture", "occlusionTexture"}

\* new RegExp(patterns.map((p) => p.source).join('|')), or the fallback
\* pattern when the list is empty
SlotPattern(patterns, fallback) ==
    IF Len(patterns.a) > 0
    THEN UNION {patterns.a[i].src : i \in 1..Len(patterns.a)}
    ELSE fallback

\* document.transform(t): the library records t; toktx encodes the textures
\* of the matching slots that hold no KTX2 image yet and renames them
ApplyTransform(doc, t) ==
    [applied |-> Append(doc.applied, t),
     buffers |-> doc.buffers,
     images  |-> [i \in 1..Len(doc.images) |->
                    LET img == doc.images[i]
                    IN  IF t.name = "toktx" /\ img.slot \in t.slots
                           /\ img.enc \notin {"etc1s", "uastc"}
                           /\ IsExternalUri(img.uri)
                        THEN [uri  |-> StripExt(img.uri) \o S_ktx2,
                              slot |-> img.slot, enc |-> t.mode]
                        ELSE IF t.name = "textureCompress" /\ img.enc = "source"
                        THEN [uri |-> img.uri, slot |-> img.slot,
                              enc |-> "recompressed"]
                        ELSE img]]

RECURSIVE ApplyTransforms(_, _)
ApplyTransforms(doc, ts) ==
    IF ts = <<>> THEN doc
    ELSE ApplyTransforms(ApplyTransform(doc, Head(ts)), Tail(ts))

\* the transforms applyGeometryOptimizations hands to document.transform
GeometryTransforms(options) ==
    LET g        == options.geometry.o
        compress == g.compress
        cleanup  == <<[name |-> "prune"], [name |-> "dedup"]>>
        quant    == IF compress # Bool(FALSE)
                    THEN <<[name |-> "quantize",
                            bits |-> toQuantizationBits(g.precision.v)]>>
                    ELSE <<>>
        dracoT   == [name   |-> "draco",
                     params |-> toDracoParams(g.quality.v, g.speed.v,
                                              g.precision.v)]
    IN  cleanup \o quant \o
        (CASE compress = Str("meshopt") -> <<>>
           [] compress = Str("draco")   -> <<dracoT>>
           [] compress = Str("both")    -> <<dracoT>>
           [] OTHER -> <<>>)

\* the transforms applyTextureOptimizations hands to document.transform
TextureTransforms(options) ==
    LET x      == options.textures.o
        mode   == x.mode.s
        resize == [name |-> "textureCompress", resize |-> x.maxSize.v]
        etc1s(slots) == [name |-> "toktx", mode |-> "etc1s",
                         quality |-> toETC1SParams(x.quality.v), slots |-> slots]
        uastc(slots) == [name |-> "toktx", mode |-> "uastc",
                         quality |-> toUASTCParams(x.quality.v), slots |-> slots]
    IN  CASE mode = "etc1s" ->
               <<resize, etc1s(SlotPattern(x.etc1sPatterns, AllSlots))>>
          [] mode = "uastc" ->
               <<resize, uastc(SlotPattern(x.uastcPatterns, AllSlots))>>
          [] mode \in {"auto", "mixed"} ->
               <<resize, etc1s(SlotPattern(x.etc1sPatterns, DefaultEtc1sSlots)),
                 uastc(SlotPattern(x.uastcPatterns, DefaultUastcSlots))>>
          [] OTHER -> <<resize>>

\* io.readJSON / io.readBinary: the document of a parsed container
ReadDocument(json) ==
    [buffers |-> json.buffers,
     images  |-> [i \in 1..Len(json.images) |->
                    [uri |-> json.images[i], slot |-> json.body.slots[i],
                     enc |-> "source"]],
     applied |-> json.body.applied]

\* the json of io.writeJSON(document), and of the JSON chunk of writeBinary
DocumentJson(doc) ==
    [buffers |-> doc.buffers,
     images  |-> [i \in 1..Len(doc.images) |-> doc.images[i].uri],
     body    |-> [slots   |-> [i \in 1..Len(doc.images) |-> doc.images[i].slot],
                  applied |-> doc.applied]]

\* io.writeBinary(document): a binary container
WriteBinary(doc) ==
    LET j == DocumentJson(doc)
    IN  [form |-> "glb", canonical |-> TRUE, buffers |-> j.buffers,
         images |-> j.images, body |-> j.body]

\* the bytes of one resource of io.writeJSON(document)
BufferBytes(uri, applied) ==
    [form |-> "resource", of |-> uri, enc |-> "bin", applied |-> Len(applied)]

ImageBytes(image) ==
    [form |-> "resource", of |-> image.uri, enc |-> image.enc, applied |-> 0]

\* jsonDoc.resources of io.writeJSON(document): one entry per external uri
RECURSIVE ImageResources(_, _)
ImageResources(images, n) ==
    IF n = 0 THEN <<>>
    ELSE IF IsExternalUri(images[n].uri)
    THEN Assign(ImageResources(images, n - 1), images[n].uri,
                ImageBytes(images[n]))
    ELSE ImageResources(images, n - 1)

RECURSIVE WithBufferResources(_, _, _, _)
WithBufferResources(resources, buffers, n, applied) ==
    IF n = 0 THEN resources
    ELSE IF IsExternalUri(buffers[n])
    THEN Assign(WithBufferResources(resources, buffers, n - 1, applied),
                buffers[n], BufferBytes(buffers[n], applied))
    ELSE WithBufferResources(resources, buffers, n - 1, applied)

WriteJsonResources(doc) ==
    WithBufferResources(ImageResources(doc.images, Len(doc.images)),
                        doc.buffers, Len(doc.buffers), doc.applied)

\* the bytes fs.readFile returns for a file
FileBytes(path) == [form |-> "resource", of |-> path]

\* a loader whose inner catch passes the error on
CatchReadError_Rethrow(acc) == [acc EXCEPT !.threw = TRUE]

\* catch (_) around one fs.readFile: warn and go on
CatchReadError(acc) == acc

\* one loop of loadExternalResources over images or buffers: an entry with a
\* uri that is not a data: uri is read from path.resolve(baseDir, uri) and
\* stored under the uri as written
RECURSIVE LoadUris(_, _, _, _)
LoadUris(acc, uris, baseDir, unreadable) ==
    IF uris = <<>> \/ acc.threw THEN acc
    ELSE LET uri == Head(uris)
             Next(a) == LoadUris(a, Tail(uris), baseDir, unreadable)
         IN  IF uri = <<>> \/ StartsWith(uri, S_data) THEN Next(acc)
             ELSE IF PosixJoin(baseDir, uri) \in unreadable
             THEN Next(CatchReadError(acc))
             ELSE Next([acc EXCEPT !.resources =
                          Assign(@, uri, FileBytes(PosixJoin(baseDir, uri)))])

\* the outer catch of loadExternalResources: the resources loaded so far
CatchLoadError(acc) == [acc EXCEPT !.threw = FALSE]

\* GLTFProcessor.loadExternalResources(gltfJson, baseDir), the files of
\* unreadable being missing or unreadable
loadExternalResources(gltfJson, baseDir, unreadable) ==
    LET Buffers(acc) == LoadUris(acc, gltfJson.buffers, baseDir, unreadable)
    IN  CatchLoadError(
           Buffers(LoadUris([threw |-> FALSE, resources |-> <<>>],
                            gltfJson.images, baseDir, unreadable)))

\* the container a file name selects: '.gltf', '.glb' or neither
ContainerForm(fileName) ==
    IF EndsWith(ToLowerCase(fileName), S_gltf) THEN "json"
    ELSE IF EndsWith(ToLowerCase(fileName), S_glb) THEN "glb"
    ELSE "unsupported"

\* a processor that optimizes the textures first
Optimizations_TexturesFirst(options) ==
    TextureTransforms(options) \o GeometryTransforms(options)

\* await this.applyGeometryOptimizations(document, fileName);
\* await this.applyTextureOptimizations(document, fileName)
Optimizations(options) ==
    GeometryTransforms(options) \o TextureTransforms(options)

FaultStages == {"none", "read", "geometry", "texture", "write"}

\* the body of the try block shared by processBuffer and processFile up to
\* the write: [threw, doc]
OptimizeDocument(input, fileName, options, fault) ==
    LET form == ContainerForm(fileName)
    IN  IF form = "unsupported" \/ input.form # form \/ fault = "read"
        THEN [threw |-> TRUE, doc |-> NoValue]
        ELSE IF fault \in {"geometry", "texture"}
        THEN [threw |-> TRUE, doc |-> NoValue]
        ELSE [threw |-> FALSE,
              doc   |-> ApplyTransforms(ReadDocument(input),
                                        Optimizations(options))]

\* the end of the try block of processBuffer: io.writeBinary(document)
processBufferWrite(body, fault) ==
    IF body.threw \/ fault = "write"
    THEN [threw |-> TRUE, value |-> NoValue]
    ELSE [threw |-> FALSE, value |-> WriteBinary(body.doc)]

\* the try block of processBuffer: [threw, value]
processBufferTry(inputBuffer, fileName, options, fault) ==
    processBufferWrite(OptimizeDocument(inputBuffer, fileName, options, fault),
                       fault)

\* a catch block that throws the error again
processBufferCatch_Rethrow(inputBuffer) == [threw |-> TRUE, value |-> NoValue]

\* the catch block of processBuffer: the error is logged, the input returned
processBufferCatch(inputBuffer) == [threw |-> FALSE, value |-> inputBuffer]

\* GLTFProcessor.processBuffer(inputBuffer, fileName): [threw, value]
processBuffer(inputBuffer, fileName, options, fault) ==
    LET Outcome(try) ==
            IF try.threw THEN processBufferCatch(inputBuffer) ELSE try
    IN  Outcome(processBufferTry(inputBuffer, fileName, options, fault))

\* GLTFProcessor.processFile(filePath, true) for a file that holds input:
\* [threw, buffer, resources]; the fault "unreadable" makes every
\* fs.readFile(filePath) fail, that of the catch block too
processFile(input, fileName, options, fault) ==
    LET Outcome(body) ==
            IF fault = "unreadable"
            THEN [threw |-> TRUE, buffer |-> NoValue, resources |-> <<>>]
            ELSE IF body.threw \/ fault = "write"
            THEN [threw |-> FALSE, buffer |-> input, resources |-> <<>>]
            ELSE IF ContainerForm(fileName) = "json"
            THEN [threw     |-> FALSE,
                  buffer    |-> JsonStringify(DocumentJson(body.doc)),
                  resources |-> WriteJsonResources(body.doc)]
            ELSE [threw |-> FALSE, buffer |-> WriteBinary(body.doc),
                  resources |-> <<>>]
    IN  Outcome(OptimizeDocument(input, fileName, options, fault))

-----------------------------------------------------------------------------
(***************************************************************************)
(* Namespacing of the resources of a public-source asset                   *)
(* (processPublicSourceGLTFFile, "Adjust external resources")              *)
(***************************************************************************)

\* `${baseName}_bin/` for the asset's file name
BinPrefix(gltfName) ==
    PosixBasenameExt(gltfName, PosixExtname(gltfName)) \o S_binDir

\* the new uri of one entry of json.buffers
NamespacedBufferUri(binPrefix, uri) ==
    IF IsExternalUri(uri) THEN binPrefix \o StripDotSlash(uri) ELSE uri

\* the new uri of one entry of json.images
FlattenedImageUri(ktx2Emitted, uri) ==
    IF ktx2Emitted /\ IsExternalUri(uri)
    THEN StripExt(PosixBasename(uri)) \o S_ktx2
    ELSE uri

\* the key under which the loop over Object.entries(resources) stores uri
RemappedKey(binPrefix, ktx2Emitted, uri) ==
    LET bare  == StripDotSlash(uri)
        lower == ToLowerCase(bare)
    IN  IF EndsWith(lower, S_bin) THEN binPrefix \o bare
        ELSE IF EndsWith(lower, S_ktx2) THEN PosixBasename(bare)
        ELSE IF ktx2Emitted THEN binPrefix \o bare
        ELSE bare

\* the object `remapped` after the loop over the first n entries
RECURSIVE Remapped(_, _, _, _)
Remapped(resources, n, binPrefix, ktx2Emitted) ==
    IF n = 0 THEN <<>>
    ELSE Assign(Remapped(resources, n - 1, binPrefix, ktx2Emitted),
                RemappedKey(binPrefix, ktx2Emitted, resources[n].uri),
                resources[n].buf)

\* the namespacing step: optimizedBuffer and resources after it
NamespaceResources(gltfName, optimizedBuffer, resources) ==
    LET ktx2Emitted == Ktx2Emitted(resources)
        isGLTFJson  == EndsWith(ToLowerCase(gltfName), S_gltf)
        binPrefix   == BinPrefix(gltfName)
        json        == JsonParse(optimizedBuffer)
        rewritten   ==
            [json EXCEPT
               !.buffers = [i \in 1..Len(json.buffers) |->
                              NamespacedBufferUri(binPrefix, json.buffers[i])],
               !.images  = [i \in 1..Len(json.images) |->
                              FlattenedImageUri(ktx2Emitted, json.images[i])]]
    IN  IF ~isGLTFJson \/ JsonParseThrows(optimizedBuffer)
        THEN [buffer |-> optimizedBuffer, resources |-> resources]
        ELSE [buffer    |-> JsonStringify(rewritten),
              resources |-> Remapped(resources, Len(resources), binPrefix,
                                     ktx2Emitted)]

-----------------------------------------------------------------------------
(***************************************************************************)
(* Specification of the mapper: inputs are drawn, the functions applied.   *)
(***************************************************************************)

\* the quality inputs are k / QualityGrid for k from below 0 to above 1
QualityGrid == 24

QualityInputs ==
    {(k * Milli) \div QualityGrid : k \in (0 - 1)..(QualityGrid + 1)}
       \cup {0 - Milli, 2 * Milli}

TextureModes == {"auto", "etc1s", "uastc", "mixed", "manual"}

F_wood_ktx2   == <<"w", "o", "o", "d", ".", "k", "t", "x", "2">>
F_Normal_ktx2 == <<"N", "o", "r", "m", "a", "l", ".", "k", "t", "x", "2">>
F_form_ktx2   == <<"f", "o", "r", "m", ".", "k", "t", "x", "2">>

RankFileNames == {F_wood_ktx2, F_Normal_ktx2, F_form_ktx2}

RankInputs ==
    [mode : TextureModes, quality : QualityInputs, filename : RankFileNames]

mapperVars == <<mapIn, mapOut>>
resolverVars == <<userOptions, resolved, resolverPc>>
remapVars == <<remapIn, remapOut>>
procVars == <<procIn, procOut>>
probeVars == <<ktxProbe>>
pluginVars ==
    <<config, processedOptions, processor, isInitialized, ktxAvailable,
      warnedAboutKTX, dependencyFiles, originalFilesToCleanup,
      optimizationStats, sharedKTXCache, bundle, disk, builds, trace,
      ktx2Assets>>


\* two textures are drawn, each with the options in force when it is ranked
MapperInit ==
    /\ mapIn \in [a : RankInputs, b : RankInputs]
    /\ mapOut = NoValue
    /\ userOptions = NoValue /\ resolved = NoValue /\ resolverPc = "idle"
    /\ remapIn = NoValue /\ remapOut = NoValue
    /\ procIn = NoValue /\ procOut = NoValue
    /\ config = NoValue /\ processedOptions = NoValue /\ processor = NoValue
    /\ isInitialized = NoValue /\ ktxAvailable = NoValue
    /\ warnedAboutKTX = NoValue /\ dependencyFiles = NoValue
    /\ originalFilesToCleanup = NoValue /\ optimizationStats = NoValue
    /\ sharedKTXCache = NoValue /\ bundle = NoValue /\ disk = NoValue
    /\ builds = NoValue /\ trace = NoValue
    /\ ktx2Assets = NoValue
    /\ ktxProbe = NoValue

\* the mapper applied to one input: the value on the 0-1 scale is the
\* texture quality of the rank and the precision of the bit depths; the
\* quality and the speed of the Draco parameters are those of the other input
RankResult(in, other) ==
    [intended |-> IntendedMode(in.mode, in.filename),
     rank     |-> computeTextureRank(in.mode, in.quality, in.filename),
     etcQ     |-> toETC1SParams(in.quality),
     uastc    |-> toUASTCParams(in.quality),
     bits     |-> toQuantizationBits(in.quality),
     draco    |-> toDracoParams(other.quality, other.quality, in.quality)]

\* computeTextureRank and the CompressionMapper applied to both inputs
ApplyRank ==
    /\ mapIn # NoValue
    /\ mapOut = NoValue
    /\ mapOut' = [a |-> RankResult(mapIn.a, mapIn.b),
                  b |-> RankResult(mapIn.b, mapIn.a)]
    /\ UNCHANGED <<mapIn, resolverVars, remapVars, procVars, pluginVars, probeVars>>

-----------------------------------------------------------------------------
(***************************************************************************)
(* Specification of the resolver: optimizeGLTF(options) runs               *)
(* processOptions and then validateOptions on its result.                  *)
(***************************************************************************)

\* an optional field that the object does not have
Absent == [t |-> "absent"]

Optional(values) == values \cup {Absent}

\* the object whose own keys are the fields of rec that are not Absent
MkObj(rec) == [k \in {kk \in DOMAIN rec : rec[kk] # Absent} |-> rec[k]]

GeometryInputs ==
    {MkObj(r) : r \in
       [compress  : Optional({Str("draco")}),
        quality   : Optional({Undefined, Num(250), Num(0 - 250), Num(1250), NaN}),
        speed     : Optional({Num(1000), Num(1001), NaN}),
        precision : Optional({Undefined, Num(0 - 1), NegInf})]}

TextureInputs ==
    {MkObj(r) : r \in
       [mode    : Optional({Str("uastc")}),
        quality : Optional({Num(2000), NaN}),
        maxSize : Optional({Undefined, Num(2048 * Milli), Num(0), Num(0 - 1000),
                            Num(512 * Milli + 500), PosInf, NaN})]}

\* the option objects of type GLTFOptimizerOptions that are drawn
UserOptionInputs ==
    {MkObj(r) : r \in
       [level    : Optional({Undefined, Str("light"), Str("aggressive"),
                             Str("bogus")}),
        geometry : Optional({Undefined} \cup {Obj(o) : o \in GeometryInputs}),
        textures : Optional({Undefined} \cup {Obj(o) : o \in TextureInputs})]}

ResolverInit ==
    /\ userOptions \in UserOptionInputs
    /\ resolved = NoValue
    /\ resolverPc = "start"
    /\ mapIn = NoValue /\ mapOut = NoValue
    /\ remapIn = NoValue /\ remapOut = NoValue
    /\ procIn = NoValue /\ procOut = NoValue
    /\ config = NoValue /\ processedOptions = NoValue /\ processor = NoValue
    /\ isInitialized = NoValue /\ ktxAvailable = NoValue
    /\ warnedAboutKTX = NoValue /\ dependencyFiles = NoValue
    /\ originalFilesToCleanup = NoValue /\ optimizationStats = NoValue
    /\ sharedKTXCache = NoValue /\ bundle = NoValue /\ disk = NoValue
    /\ builds = NoValue /\ trace = NoValue
    /\ ktx2Assets = NoValue
    /\ ktxProbe = NoValue

\* the slot patterns a user hands over: /baseColorTexture/ for ETC1S and
\* /normalTexture/ for UASTC
UserEtc1sPatterns == Arr(<<RegExp({"baseColorTexture"})>>)
UserUastcPatterns == Arr(<<RegExp({"normalTexture"})>>)

\* option objects whose fields are valid and differ in kind: undefined,
\* false, strings, numbers, arrays and regular expressions
MergeGeometryInputs ==
    {MkObj(r) : r \in
       [compress : Optional({Undefined, Bool(FALSE), Str("both")}),
        quality  : Optional({Undefined, Num(250)})]}

MergeTextureInputs ==
    {MkObj(r) : r \in
       [mode          : Optional({Str("uastc")}),
        maxSize       : Optional({Undefined, Num(256 * Milli)}),
        etc1sPatterns : Optional({Undefined, Arr(<<>>), UserEtc1sPatterns})]}

MergeOptionInputs ==
    {MkObj(r) : r \in
       [level    : Optional({Undefined, Str("light"), Str("medium"),
                             Str("aggressive"), Str("bogus"), Str("")}),
        include  : Optional({RegExp("glb")}),
        exclude  : Optional({Undefined, RegExp("draft")}),
        verbose  : Optional({Bool(TRUE)}),
        geometry : Optional({Undefined} \cup {Obj(o) : o \in MergeGeometryInputs}),
        textures : Optional({Undefined} \cup {Obj(o) : o \in MergeTextureInputs})]}

MergeInit ==
    /\ userOptions \in MergeOptionInputs
    /\ resolved = NoValue
    /\ resolverPc = "start"
    /\ mapIn = NoValue /\ mapOut = NoValue
    /\ remapIn = NoValue /\ remapOut = NoValue
    /\ procIn = NoValue /\ procOut = NoValue
    /\ config = NoValue /\ processedOptions = NoValue /\ processor = NoValue
    /\ isInitialized = NoValue /\ ktxAvailable = NoValue
    /\ warnedAboutKTX = NoValue /\ dependencyFiles = NoValue
    /\ originalFilesToCleanup = NoValue /\ optimizationStats = NoValue
    /\ sharedKTXCache = NoValue /\ bundle = NoValue /\ disk = NoValue
    /\ builds = NoValue /\ trace = NoValue
    /\ ktx2Assets = NoValue
    /\ ktxProbe = NoValue

\* const processedOptions = PresetManager.processOptions(options)
ProcessOptionsCall ==
    /\ resolverPc = "start"
    /\ resolved' = processOptions(userOptions)
    /\ resolverPc' = "processed"
    /\ UNCHANGED <<userOptions, mapperVars, remapVars, procVars, pluginVars, probeVars>>

\* PresetManager.validateOptions(processedOptions, processedOptions.verbose)
ValidateOptionsCall ==
    /\ resolverPc \in {"processed", "validated"}
    /\ IF ValidateThrows(resolved)
       THEN resolverPc' = "threw" /\ resolved' = resolved
       ELSE resolverPc' = "validated" /\ resolved' = validateOptions(resolved)
    /\ UNCHANGED <<userOptions, mapperVars, remapVars, procVars, pluginVars, probeVars>>

-----------------------------------------------------------------------------
(***************************************************************************)
(* Specification of the namespacing step: a result of processFile is       *)
(* drawn and the step applied to it.                                       *)
(***************************************************************************)

\* the longest buffers[] and images[] of a drawn document
MaxBufferUris == 1
MaxImageUris == 2

U_a_bin      == <<"a", ".", "b", "i", "n">>
U_dot_a_bin  == <<".", "/", "a", ".", "b", "i", "n">>
U_sub_a_bin  == <<"s", "/", "a", ".", "b", "i", "n">>
U_A_BIN      == <<"A", ".", "B", "I", "N">>
U_a_buf      == <<"a", ".", "b", "u", "f">>
U_data       == <<"d", "a", "t", "a", ":", "x">>
U_t_png      == <<"t", ".", "p", "n", "g">>
U_dot_t_png  == <<".", "/", "t", ".", "p", "n", "g">>
U_sub_t_png  == <<"s", "/", "t", ".", "p", "n", "g">>
U_t_ktx2     == <<"t", ".", "k", "t", "x", "2">>
U_sub_t_ktx2 == <<"s", "/", "t", ".", "k", "t", "x", "2">>
U_n_ktx2     == <<"n", ".", "k", "t", "x", "2">>

N_foo_gltf   == <<"f", "o", "o", ".", "g", "l", "t", "f">>
N_Foo_GLTF   == <<"F", "o", "o", ".", "G", "L", "T", "F">>
N_m_glb      == <<"m", ".", "g", "l", "b">>

BufferUriPool == {U_a_bin, U_dot_a_bin, U_sub_a_bin, U_A_BIN, U_a_buf, U_data, <<>>}
ImageUriPool ==
    {U_t_png, U_dot_t_png, U_sub_t_png, U_t_ktx2, U_sub_t_ktx2, U_n_ktx2,
     U_data, <<>>}

SeqsUpTo(S, n) == UNION {[1..k -> S] : k \in 0..n}

\* the bytes the engine wrote for the resource it names uri
ResourceBytes(uri) == [form |-> "resource", of |-> uri]

\* jsonDoc.resources of writeJSON: one entry for every external uri of the
\* document, under that very uri
RECURSIVE EngineResources(_)
EngineResources(uris) ==
    IF uris = <<>> THEN <<>>
    ELSE LET rest == EngineResources(SubSeq(uris, 1, Len(uris) - 1))
             u    == uris[Len(uris)]
         IN  IF IsExternalUri(u) THEN Assign(rest, u, ResourceBytes(u)) ELSE rest

\* what processFile(filePath, true) returns for a .gltf file it optimized
GltfResults(gltfName) ==
    {[gltfName  |-> gltfName,
      buffer    |-> JsonStringify([buffers |-> b, images |-> i,
                                   body |-> "optimized"]),
      resources |-> EngineResources(i \o b)] :
        b \in SeqsUpTo(BufferUriPool, MaxBufferUris),
        i \in SeqsUpTo(ImageUriPool, MaxImageUris)}

\* what it returns for a .glb file: the binary container and no resources
GlbResult(gltfName) ==
    [gltfName |-> gltfName, buffer |-> [form |-> "glb", body |-> "optimized"],
     resources |-> <<>>]

RemapInit ==
    /\ remapIn \in GltfResults(N_foo_gltf) \cup GltfResults(N_Foo_GLTF)
                     \cup {GlbResult(N_m_glb)}
    /\ remapOut = NoValue
    /\ mapIn = NoValue /\ mapOut = NoValue
    /\ userOptions = NoValue /\ resolved = NoValue /\ resolverPc = "idle"
    /\ procIn = NoValue /\ procOut = NoValue
    /\ config = NoValue /\ processedOptions = NoValue /\ processor = NoValue
    /\ isInitialized = NoValue /\ ktxAvailable = NoValue
    /\ warnedAboutKTX = NoValue /\ dependencyFiles = NoValue
    /\ originalFilesToCleanup = NoValue /\ optimizationStats = NoValue
    /\ sharedKTXCache = NoValue /\ bundle = NoValue /\ disk = NoValue
    /\ builds = NoValue /\ trace = NoValue
    /\ ktx2Assets = NoValue
    /\ ktxProbe = NoValue

\* the namespacing step of processPublicSourceGLTFFile
ApplyNamespace ==
    /\ remapIn # NoValue
    /\ remapOut = NoValue
    /\ remapOut' = NamespaceResources(remapIn.gltfName, remapIn.buffer,
                                      remapIn.resources)
    /\ UNCHANGED <<remapIn, mapperVars, resolverVars, procVars, pluginVars, probeVars>>

-----------------------------------------------------------------------------
(***************************************************************************)
(* Specification of processBuffer: a buffer, a file name, the options of   *)
(* the processor and the stage at which the library fails are drawn.       *)
(***************************************************************************)

\* the options of the plugin instances that are drawn
PluginUserOptions ==
    {MkObj([geometry |-> Obj(MkObj([compress |-> c])),
            textures |-> Obj(MkObj([mode |-> m, etc1sPatterns |-> pe,
                                    uastcPatterns |-> pu]))]) :
        c \in {Absent, Str("quantize"), Str("draco"), Str("both"), Bool(FALSE)},
        m \in {Absent, Str("etc1s"), Str("uastc"), Str("mixed"), Str("manual")},
        pe \in {Absent, UserEtc1sPatterns},
        pu \in {Absent, UserUastcPatterns}}

\* optimizeGLTF(options): processedOptions after validateOptions
ProcessedOptionsOf(options) == validateOptions(processOptions(options))

N_s_gltf == <<"s", ".", "g", "l", "t", "f">>
N_M_GLB  == <<"M", ".", "G", "L", "B">>
N_x_txt  == <<"x", ".", "t", "x", "t">>

\* a glTF text as found on disk or in the bundle, not yet optimized
SourceJson(buffers, images, slots) ==
    [form |-> "json", canonical |-> FALSE, buffers |-> buffers,
     images |-> images, body |-> [slots |-> slots, applied |-> <<>>]]

\* a binary container, not yet optimized
SourceGlb(buffers, images, slots) ==
    [form |-> "glb", canonical |-> FALSE, buffers |-> buffers,
     images |-> images, body |-> [slots |-> slots, applied |-> <<>>]]

\* bytes that are neither JSON text nor a binary container
CorruptBytes == [form |-> "corrupt"]

ProcInputBuffers ==
    {SourceJson(<<U_a_bin>>, <<U_t_png>>, <<"baseColorTexture">>),
     SourceGlb(<<<<>>>>, <<U_t_png, <<>>>>, <<"normalTexture", "baseColorTexture">>),
     CorruptBytes}

ProcInit ==
    /\ procIn \in [buffer   : ProcInputBuffers,
                   fileName : {N_s_gltf, N_m_glb, N_M_GLB, N_x_txt},
                   options  : {ProcessedOptionsOf(u) : u \in PluginUserOptions},
                   fault    : FaultStages]
    /\ procOut = NoValue
    /\ mapIn = NoValue /\ mapOut = NoValue
    /\ userOptions = NoValue /\ resolved = NoValue /\ resolverPc = "idle"
    /\ remapIn = NoValue /\ remapOut = NoValue
    /\ config = NoValue /\ processedOptions = NoValue /\ processor = NoValue
    /\ isInitialized = NoValue /\ ktxAvailable = NoValue
    /\ warnedAboutKTX = NoValue /\ dependencyFiles = NoValue
    /\ originalFilesToCleanup = NoValue /\ optimizationStats = NoValue
    /\ sharedKTXCache = NoValue /\ bundle = NoValue /\ disk = NoValue
    /\ builds = NoValue /\ trace = NoValue
    /\ ktx2Assets = NoValue
    /\ ktxProbe = NoValue

\* processor.processBuffer(inputBuffer, fileName)
CallProcessBuffer ==
    /\ procIn # NoValue
    /\ procOut = NoValue
    /\ procOut' = processBuffer(procIn.buffer, procIn.fileName, procIn.options,
                                procIn.fault)
    /\ UNCHANGED <<procIn, mapperVars, resolverVars, remapVars, pluginVars, probeVars>>

\* the directory of the .gltf file whose resources are loaded
D_models == <<"m", "o", "d", "e", "l", "s">>

\* the JSON of the containers whose resources are loaded
LoadJsons ==
    {SourceJson(b, i, [k \in 1..Len(i) |-> "baseColorTexture"]) :
        b \in SeqsUpTo({U_a_bin, U_data, <<>>}, MaxBufferUris),
        i \in SeqsUpTo({U_t_png, U_dot_t_png, U_sub_t_png, U_data, <<>>},
                       MaxImageUris)}

\* the files next to the container
SiblingFiles ==
    {PosixJoin(D_models, u) : u \in {U_a_bin, U_t_png, U_sub_t_png}}

LoadInit ==
    /\ procIn \in [json : LoadJsons, baseDir : {D_models},
                   unreadable : SUBSET SiblingFiles]
    /\ procOut = NoValue
    /\ mapIn = NoValue /\ mapOut = NoValue
    /\ userOptions = NoValue /\ resolved = NoValue /\ resolverPc = "idle"
    /\ remapIn = NoValue /\ remapOut = NoValue
    /\ config = NoValue /\ processedOptions = NoValue /\ processor = NoValue
    /\ isInitialized = NoValue /\ ktxAvailable = NoValue
    /\ warnedAboutKTX = NoValue /\ dependencyFiles = NoValue
    /\ originalFilesToCleanup = NoValue /\ optimizationStats = NoValue
    /\ sharedKTXCache = NoValue /\ bundle = NoValue /\ disk = NoValue
    /\ builds = NoValue /\ trace = NoValue
    /\ ktx2Assets = NoValue
    /\ ktxProbe = NoValue

\* this.loadExternalResources(gltfJson, path.dirname(filePath))
CallLoadExternalResources ==
    /\ procIn # NoValue
    /\ procOut = NoValue
    /\ procOut' = loadExternalResources(procIn.json, procIn.baseDir,
                                        procIn.unreadable)
    /\ UNCHANGED <<procIn, mapperVars, resolverVars, remapVars, pluginVars, probeVars>>

-----------------------------------------------------------------------------
(***************************************************************************)
(* The bundler plugin (optimizeGLTF)                                       *)
(*                                                                         *)
(* A bundle and the shared KTX2 cache are functions from paths to entries. *)
(* A path below the public directory is written relative to it, so that    *)
(* path.relative(publicDir, filePath) is the path itself.  An operator     *)
(* that models code which may throw returns a record with the field threw. *)
(***************************************************************************)

Null == [t |-> "null"]

EmptyMap == [k \in {} |-> NoValue]

\* map[k] = v
Put(m, k, v) == [x \in (DOMAIN m) \cup {k} |-> IF x = k THEN v ELSE m[x]]

\* the elements of a set in one fixed order
RECURSIVE SetToSeq(_)
SetToSeq(S) ==
    IF S = {} THEN <<>>
    ELSE LET x == CHOOSE y \in S : TRUE IN <<x>> \o SetToSeq(S \ {x})

\* the set of the elements of a sequence
Range(s) == {s[i] : i \in 1..Len(s)}

\* Buffer.length: every buffer is taken to be one unit long
ByteLength(buffer) == 1

\* ---- the files below the public directory
P_a_gltf == <<"g", "l", "t", "f", "/", "a", ".", "g", "l", "t", "f">>
P_b_gltf == <<"g", "l", "t", "f", "/", "b", ".", "g", "l", "t", "f">>
P_a_bin  == <<"g", "l", "t", "f", "/", "a", ".", "b", "i", "n">>
P_t_png  == <<"g", "l", "t", "f", "/", "t", ".", "p", "n", "g">>
P_t_ktx2 == <<"g", "l", "t", "f", "/", "t", ".", "k", "t", "x", "2">>

\* two assets of one directory use the same image file, one as a base colour
\* and one as a normal map
PublicFiles ==
    (P_a_gltf :> SourceJson(<<U_a_bin>>, <<U_t_png>>, <<"baseColorTexture">>))
    @@ (P_b_gltf :> SourceJson(<<U_a_bin>>, <<U_t_png>>, <<"normalTexture">>))
    @@ (P_a_bin :> [form |-> "resource", of |-> U_a_bin])
    @@ (P_t_png :> [form |-> "resource", of |-> U_t_png])

\* glob(publicDir/**/gltf/**/*.{gltf,glb}): the matching files
PublicSources ==
    {f \in DOMAIN PublicFiles :
        /\ Contains(<<"/">> \o f, <<"/", "g", "l", "t", "f", "/">>)
        /\ (EndsWith(f, S_gltf) \/ EndsWith(f, S_glb))}

\* the orders in which glob may return them, and the empty result of a
\* build whose public directory holds none
GlobResults ==
    {<<>>} \cup {s \in SeqsUpTo(PublicSources, Cardinality(PublicSources)) :
                    Len(s) = Cardinality(PublicSources) /\ Range(s) = PublicSources}

\* ---- the bundles the host hands to generateBundle
B_index_js == <<"i", "n", "d", "e", "x", ".", "j", "s">>
B_s_gltf ==
    <<"a", "s", "s", "e", "t", "s", "/", "s", ".", "g", "l", "t", "f">>
B_m_glb == <<"a", "s", "s", "e", "t", "s", "/", "m", ".", "g", "l", "b">>
B_a_bin == <<"a", "s", "s", "e", "t", "s", "/", "a", ".", "b", "i", "n">>
B_t_png == <<"a", "s", "s", "e", "t", "s", "/", "t", ".", "p", "n", "g">>

Asset(source) == [type |-> "asset", source |-> source]
Chunk(code) == [type |-> "chunk", source |-> code]

HostBundles ==
    {EmptyMap,
     (B_index_js :> Chunk("code"))
       @@ (B_s_gltf :> Asset(SourceJson(<<U_a_bin>>, <<U_dot_t_png>>,
                                        <<"baseColorTexture">>)))
       @@ (B_m_glb :> Asset(SourceGlb(<<<<>>>>, <<U_t_png>>,
                                      <<"normalTexture">>)))}

\* the ways one asset may fail: the library throws in the texture step, or
\* the file cannot be read
BundledFaults == {"none", "texture"}
PublicFaults == {"none", "texture", "unreadable"}

\* pattern.test(fileName) for the default include pattern /\.(gltf|glb)$/i
\* and for a pattern that is a literal string
RegExpTest(pattern, fileName) ==
    IF pattern.src = "gltf|glb"
    THEN \/ EndsWith(ToLowerCase(fileName), S_gltf)
         \/ EndsWith(ToLowerCase(fileName), S_glb)
    ELSE Contains(fileName, pattern.src)

\* findGLTFAssets(bundle): the file names, in the order of Object.entries
findGLTFAssets(b, options) ==
    SetToSeq({fileName \in DOMAIN b :
        /\ b[fileName].type = "asset"
        /\ RegExpTest(options.include, fileName)
        /\ ~(options.exclude # Undefined
             /\ RegExpTest(options.exclude, fileName))})

\* the stage at which the library fails for one asset: without registered
\* Draco modules the Draco transform throws
EngineFault(proc, options, fault) ==
    IF fault = "none" /\ proc = "constructed"
       /\ options.geometry.o.compress \in {Str("draco"), Str("both")}
    THEN "geometry"
    ELSE fault

\* the uris of json.buffers and then json.images that are files
ExternalUriSeq(json) ==
    SelectSeq(json.buffers, IsExternalUri)
      \o SelectSeq(json.images, IsExternalUri)

\* prefix every uri with the directory
RECURSIVE JoinAll(_, _)
JoinAll(dir, uris) ==
    IF uris = <<>> THEN <<>>
    ELSE <<PosixJoin(dir, Head(uris))>> \o JoinAll(dir, Tail(uris))

\* the glTF JSON the dependency scans extract from a buffer, by the
\* (case-sensitive) extension of the name: [threw, known, json].  For a
\* .glb the JSON chunk is read through new DataView(gltfBuffer.buffer),
\* which is the container only if the Buffer starts at offset 0 of its
\* ArrayBuffer (shifted = FALSE)
DependencyJson(fileName, buffer, shifted) ==
    IF EndsWith(fileName, S_gltf)
    THEN [threw |-> JsonParseThrows(buffer), known |-> TRUE,
          json |-> IF JsonParseThrows(buffer) THEN NoValue ELSE JsonParse(buffer)]
    ELSE IF EndsWith(fileName, S_glb)
    THEN [threw |-> buffer.form # "glb" \/ shifted, known |-> TRUE,
          json |-> IF buffer.form # "glb" \/ shifted THEN NoValue
                   ELSE JsonParse(buffer)]
    ELSE [threw |-> FALSE, known |-> FALSE, json |-> NoValue]

\* trackDependencyFiles(gltfFileName, gltfBuffer): dependencyFiles after it
trackDependencyFiles(gltfFileName, gltfBuffer, shifted, deps) ==
    LET d == DependencyJson(gltfFileName, gltfBuffer, shifted)
    IN  IF d.threw \/ ~d.known THEN deps
        ELSE deps \cup Range(JoinAll(PosixDirname(gltfFileName),
                                     ExternalUriSeq(d.json)))

\* findOriginalDependencies(gltfPath): the paths of the files it names
findOriginalDependencies(gltfPath, fault) ==
    LET d == DependencyJson(gltfPath, PublicFiles[gltfPath], FALSE)
    IN  IF fault = "unreadable" \/ d.threw \/ ~d.known THEN <<>>
        ELSE JoinAll(PosixDirname(gltfPath), ExternalUriSeq(d.json))

\* /\.(png|jpg|jpeg)$/i.test(depPath)
IsOriginalImage(depPath) ==
    \E ext \in {S_png, S_jpg, S_jpeg} : EndsWith(ToLowerCase(depPath), ext)

\* the replace test of the shared cache with >= in place of >
CacheAccepts_OrEqual(cache, resourcePath, rank) ==
    resourcePath \notin DOMAIN cache \/ rank >= cache[resourcePath].rank

\* !cached || rank > cached.rank
CacheAccepts(cache, resourcePath, rank) ==
    resourcePath \notin DOMAIN cache \/ rank > cache[resourcePath].rank

\* one round of the loop that emits the resources of an asset; e is
\* [bundle, cache, offered], offered being the .ktx2 candidates so far,
\* resourcePath is path.posix.join(resourceDir, uri) and rank is
\* computeTextureRank(uri)
EmitResource(e, resourcePath, uri, resourceBuffer, rank) ==
    LET isKTX2 == EndsWith(ToLowerCase(uri), S_ktx2)
        offer  == [path |-> resourcePath, rank |-> rank,
                   buffer |-> resourceBuffer]
    IN  IF isKTX2
        THEN IF CacheAccepts(e.cache, resourcePath, rank)
             THEN [bundle  |-> Put(e.bundle, resourcePath, Asset(resourceBuffer)),
                   cache   |-> Put(e.cache, resourcePath,
                                   [rank |-> rank, buffer |-> resourceBuffer]),
                   offered |-> Append(e.offered, offer)]
             ELSE [e EXCEPT !.offered = Append(@, offer)]
        ELSE [e EXCEPT !.bundle = Put(@, resourcePath, Asset(resourceBuffer))]

\* the loop over Object.entries(resources), first to last
RECURSIVE EmitResources(_, _, _, _)
EmitResources(e, resourceDir, resources, options) ==
    IF resources = <<>> THEN e
    ELSE EmitResources(
            EmitResource(e, PosixJoin(resourceDir, Head(resources).uri),
                         Head(resources).uri, Head(resources).buf,
                         computeTextureRank(options.textures.o.mode.s,
                                            options.textures.o.quality.v,
                                            Head(resources).uri)),
            resourceDir, Tail(resources), options)

\* fs.readFile(depPath) succeeds
IsPublicFile(depPath) == depPath \in DOMAIN PublicFiles

\* processAsset(asset, bundle) on the plugin state p; p.threw says that the
\* call threw, p.log records the call
processAsset(p, fileName, proc, options, fault, shifted) ==
    LET inputBuffer == p.bundle[fileName].source
        Store(r) ==
            IF proc = "undefined" \/ r.threw
            THEN [p EXCEPT
                    !.threw = TRUE,
                    !.log = Append(@, [kind |-> "bundled", name |-> fileName,
                                       outcome |-> "threw"])]
            ELSE [p EXCEPT
                    !.bundle = Put(@, fileName,
                                   [type |-> "asset", source |-> r.value]),
                    !.dependencyFiles =
                        trackDependencyFiles(fileName, inputBuffer, shifted, @),
                    !.log = Append(@, [kind |-> "bundled", name |-> fileName,
                                       outcome |-> IF r.value = inputBuffer
                                                   THEN "fallback" ELSE "ok"])]
    IN  Store(processBuffer(inputBuffer, fileName, options,
                            EngineFault(proc, options, fault)))

\* the cleanup test of processPublicSourceGLTFFile without the condition
\* that a .ktx2 resource was emitted
ShouldCleanup_AnyImage(ktx2Emitted, originalImageDeps) ==
    Len(originalImageDeps) > 0

\* if (ktx2Emitted && originalImageDeps.length > 0)
ShouldCleanup(ktx2Emitted, originalImageDeps) ==
    ktx2Emitted /\ Len(originalImageDeps) > 0

\* processPublicSourceGLTFFile(filePath, bundle) on the plugin state p:
\* measured are the original dependencies that could be read, result is
\* what processFile returned, ns the buffer and the resources after the
\* namespacing step and e the bundle and the cache after the emit loop
processPublicSourceGLTFFile(p, filePath, proc, options, fault) ==
    LET relativePath == filePath
        gltfName     == PosixBasename(filePath)
        inputBuffer  == PublicFiles[filePath]
        Record(measured, result, ktx2Emitted, ns, e) ==
            IF fault = "unreadable" \/ proc = "undefined" \/ result.threw
            THEN [p EXCEPT
                    !.threw = TRUE,
                    !.log = Append(@, [kind |-> "public", name |-> filePath,
                                       outcome |-> "threw",
                                       ktx2Emitted |-> FALSE])]
            ELSE [p EXCEPT
                    !.bundle = e.bundle,
                    !.sharedKTXCache = e.cache,
                    !.offered = e.offered,
                    !.optimizationStats =
                        Append(@, [name |-> gltfName,
                                   originalTotalSize |->
                                       ByteLength(inputBuffer) + Len(measured),
                                   optimizedTotalSize |->
                                       ByteLength(ns.buffer) + Len(ns.resources)]),
                    !.originalFilesToCleanup =
                        IF ShouldCleanup(ktx2Emitted,
                                         SelectSeq(measured, IsOriginalImage))
                        THEN @ \cup Range(SelectSeq(measured, IsOriginalImage))
                        ELSE @,
                    !.ktx2Assets = IF ktx2Emitted THEN @ \cup {filePath} ELSE @,
                    !.log = Append(@, [kind |-> "public", name |-> filePath,
                                       outcome |-> IF result.buffer = inputBuffer
                                                   THEN "fallback" ELSE "ok",
                                       ktx2Emitted |-> ktx2Emitted])]
        Emit(measured, result, ktx2Emitted, ns) ==
            Record(measured, result, ktx2Emitted, ns,
                   EmitResources([bundle  |-> Put(p.bundle, relativePath,
                                                  Asset(ns.buffer)),
                                  cache   |-> p.sharedKTXCache,
                                  offered |-> p.offered],
                                 PosixDirname(relativePath), ns.resources,
                                 options))
        Namespace(measured, result) ==
            Emit(measured, result, Ktx2Emitted(result.resources),
                 NamespaceResources(gltfName, result.buffer, result.resources))
    IN  Namespace(SelectSeq(findOriginalDependencies(filePath, fault),
                            IsPublicFile),
                  processFile(inputBuffer, gltfName, options,
                              EngineFault(proc, options, fault)))

\* the catch block of the loop over the bundled assets: log and continue
CatchBundledAssetError(p) == [p EXCEPT !.threw = FALSE]

\* for (const asset of gltfAssets) { try { await processAsset } catch {} }
RECURSIVE BundledAssetLoop(_, _, _, _, _, _)
BundledAssetLoop(p, assets, proc, options, faults, shifted) ==
    IF assets = <<>> \/ p.threw THEN p
    ELSE BundledAssetLoop(
            CatchBundledAssetError(
               processAsset(p, Head(assets), proc, options,
                            faults[Head(assets)], Head(assets) \in shifted)),
            Tail(assets), proc, options, faults, shifted)

\* a catch block that throws the error again
CatchPublicFileError_Rethrow(p) == p

\* the catch block of the loop over the public source files
CatchPublicFileError(p) == [p EXCEPT !.threw = FALSE]

\* for (const filePath of sourceGltfFiles) { try { ... } catch {} }
RECURSIVE PublicFileLoop(_, _, _, _, _)
PublicFileLoop(p, files, proc, options, faults) ==
    IF files = <<>> \/ p.threw THEN p
    ELSE PublicFileLoop(
            CatchPublicFileError(
               processPublicSourceGLTFFile(p, Head(files), proc, options,
                                           faults[Head(files)])),
            Tail(files), proc, options, faults)

\* the catch block around the whole scan of the public directory
CatchPublicScanError(p) == [p EXCEPT !.threw = FALSE]

\* processPublicSourceGLTFFiles(bundle)
processPublicSourceGLTFFiles(p, files, proc, options, faults) ==
    IF Len(files) = 0 THEN p
    ELSE CatchPublicScanError(PublicFileLoop(p, files, proc, options, faults))

\* the body of the generateBundle handler in build mode
generateBundleHandler(p, files, proc, options, faults, shifted) ==
    LET Bundled(gltfAssets) ==
            IF Len(gltfAssets) > 0
            THEN BundledAssetLoop(p, gltfAssets, proc, options, faults, shifted)
            ELSE p
        Public(afterBundled) ==
            IF afterBundled.threw THEN afterBundled
            ELSE processPublicSourceGLTFFiles(afterBundled, files, proc,
                                              options, faults)
    IN  Public(Bundled(findGLTFAssets(p.bundle, options)))

\* cleanupOriginalDependencies(outputDir): the files left in the output
\* directory; unlink fails silently on the files of locked
cleanupOriginalDependencies(files, cleanup, locked) ==
    files \ (cleanup \ locked)

VirtualPrefix ==
    <<"v", "i", "r", "t", "u", "a", "l", ":", "g", "l", "t", "f", "-",
      "d", "e", "p", "e", "n", "d", "e", "n", "c", "y", ":">>

StubModule == "// GLTF dependency file - handled by gltf-transform"

\* a resolveId that intercepts nothing
IsTrackedDependency_None(normalizedId, deps) == FALSE

\* dependencyFiles.has(normalizedId) ||
\*   Array.from(dependencyFiles).some((dep) => normalizedId.endsWith(dep))
IsTrackedDependency(normalizedId, deps) ==
    \/ normalizedId \in deps
    \/ \E dep \in deps : EndsWith(normalizedId, dep)

\* resolveId(id)
resolveId(id, deps) ==
    LET normalizedId == PosixNormalize(id)
    IN  IF IsTrackedDependency(normalizedId, deps)
        THEN Str(VirtualPrefix \o normalizedId)
        ELSE Null

\* load(id)
load(id) == IF StartsWith(id, VirtualPrefix) THEN Str(StubModule) ELSE Null

\* the lines of the summary closeBundle prints: one per statistic, and a
\* total when there is more than one
closeBundleSummary(stats) ==
    IF Len(stats) > 0
    THEN [lines |-> [i \in 1..Len(stats) |-> stats[i].name],
          total |-> Len(stats) > 1]
    ELSE [lines |-> <<>>, total |-> FALSE]

-----------------------------------------------------------------------------
(***************************************************************************)
(* Specification of the plugin: one instance is created and the host calls *)
(* its hooks in any order, with any resolved command, any outcome of the   *)
(* KTX probe and of the initialization, any bundle and any failing assets. *)
(***************************************************************************)

\* the number of generateBundle calls on one instance
MaxBuilds == 2

\* the options of the plugin instances that are drawn: [mode, compress]
\* the options of the instances: the defaults, UASTC with Draco, and the
\* manual mode with the exclude pattern /\.gltf/, which matches
\* assets/s.gltf, gltf/a.gltf and gltf/b.gltf and not assets/m.glb
InstanceOptions ==
    {MkObj([exclude  |-> oc[3],
            geometry |-> Obj(MkObj([compress |-> oc[2]])),
            textures |-> Obj(MkObj([mode |-> oc[1]]))]) :
        oc \in {<<Absent, Absent, Absent>>,
                <<Str("uastc"), Str("draco"), Absent>>,
                <<Str("manual"), Absent,
                  RegExp(<<".", "g", "l", "t", "f">>)>>}}

M_src_t_png ==
    <<"/", "s", "r", "c", "/">> \o B_t_png
M_dot_a_bin ==
    <<"a", "s", "s", "e", "t", "s", "/", ".", "/", "a", ".", "b", "i", "n">>
M_xassets_t_png == <<"x">> \o B_t_png
M_main_js == <<"m", "a", "i", "n", ".", "j", "s">>

\* the module ids the host asks about
ModuleIds == {M_src_t_png, M_dot_a_bin, M_xassets_t_png, M_main_js}

\* the ids the host asks to load
LoadIds == {M_main_js, VirtualPrefix \o B_t_png}

\* the record of a generateBundle call that did not reach the assets
NoTrace(threw, host) ==
    [ran |-> FALSE, threw |-> threw, proc |-> "undefined", host |-> host,
     files |-> <<>>, faults |-> EmptyMap, cacheBefore |-> EmptyMap,
     log |-> <<>>, offered |-> <<>>]

PluginInit ==
    /\ processedOptions \in {ProcessedOptionsOf(u) : u \in InstanceOptions}
    /\ config = NoValue
    /\ processor = "undefined"
    /\ isInitialized = FALSE
    /\ ktxAvailable = Null
    /\ warnedAboutKTX = FALSE
    /\ dependencyFiles = {}
    /\ originalFilesToCleanup = {}
    /\ optimizationStats = <<>>
    /\ sharedKTXCache = EmptyMap
    /\ bundle = EmptyMap
    /\ disk = {}
    /\ builds = 0
    /\ trace = NoTrace(FALSE, EmptyMap)
    /\ ktx2Assets = {}
    /\ ktxProbe = NoValue
    /\ mapIn = NoValue /\ mapOut = NoValue
    /\ userOptions = NoValue /\ resolved = NoValue /\ resolverPc = "idle"
    /\ remapIn = NoValue /\ remapOut = NoValue
    /\ procIn = NoValue /\ procOut = NoValue

otherVars == <<mapperVars, resolverVars, remapVars, procVars, probeVars>>

\* a hook without the test of the command
HookSkipped_Never == FALSE

\* if (config.command === 'serve') return; reading config.command while
\* config is undefined throws a TypeError
HookSkipped == IF config = NoValue THEN TRUE ELSE config.command = "serve"

\* configResolved(resolvedConfig)
ConfigResolved ==
    /\ \E command \in {"serve", "build"} : config' = [command |-> command]
    /\ UNCHANGED <<processedOptions, processor, isInitialized, ktxAvailable,
                   warnedAboutKTX, dependencyFiles, originalFilesToCleanup,
                   optimizationStats, sharedKTXCache, bundle, disk, builds,
                   trace, ktx2Assets, otherVars>>

\* if (ktxAvailable === null): the probe runs while no answer is stored
ShouldProbe_Always(available) == TRUE

ShouldProbe(available) == available = Null

\* processedOptions.textures.mode = 'manual'
ForceManual_Keep(options) == options

ForceManual(options) ==
    [options EXCEPT !.textures = Obj([@.o EXCEPT !.mode = Str("manual")])]

\* if (!isInitialized): the processor is constructed and initialized
ShouldConstruct(initialized) == ~initialized

\* initialize() throws, and buildStart with it, when the Draco modules are
\* asked for and fail to load
InitializeThrows(options, initFails) ==
    initFails /\ options.geometry.o.compress \in {Str("draco"), Str("both")}

\* buildStart(): probe is the answer of checkKTXAvailable, initFails says
\* that loading the Draco modules fails
BuildStartWith(probe, initFails) ==
    /\ IF HookSkipped
       THEN UNCHANGED <<processedOptions, processor, isInitialized,
                        ktxAvailable, warnedAboutKTX>>
       ELSE LET probing == ShouldProbe(ktxAvailable)
                missing == probing /\ ~probe
                options == IF missing THEN ForceManual(processedOptions)
                           ELSE processedOptions
                constructing == ShouldConstruct(isInitialized)
                fails == constructing /\ InitializeThrows(options, initFails)
            IN  /\ ktxAvailable' = IF probing THEN Bool(probe)
                                   ELSE ktxAvailable
                /\ warnedAboutKTX' = (warnedAboutKTX \/ missing)
                /\ processedOptions' = options
                /\ processor' = IF ~constructing THEN processor
                                ELSE IF fails THEN "constructed"
                                ELSE "initialized"
                /\ isInitialized' = IF constructing /\ ~fails THEN TRUE
                                    ELSE isInitialized
    /\ UNCHANGED <<config, dependencyFiles, originalFilesToCleanup,
                   optimizationStats, sharedKTXCache, bundle, disk, builds,
                   trace, ktx2Assets, otherVars>>

BuildStart ==
    \E probe \in BOOLEAN, initFails \in BOOLEAN : BuildStartWith(probe, initFails)

\* a plugin instance of every texture mode and geometry codec, before any
\* hook has run
StartInit ==
    /\ processedOptions \in {ProcessedOptionsOf(u) : u \in PluginUserOptions}
    /\ config = NoValue
    /\ processor = "undefined"
    /\ isInitialized = FALSE
    /\ ktxAvailable = Null
    /\ warnedAboutKTX = FALSE
    /\ dependencyFiles = {}
    /\ originalFilesToCleanup = {}
    /\ optimizationStats = <<>>
    /\ sharedKTXCache = EmptyMap
    /\ bundle = EmptyMap
    /\ disk = {}
    /\ builds = 0
    /\ trace = NoTrace(FALSE, EmptyMap)
    /\ ktx2Assets = {}
    /\ ktxProbe = NoValue
    /\ mapIn = NoValue /\ mapOut = NoValue
    /\ userOptions = NoValue /\ resolved = NoValue /\ resolverPc = "idle"
    /\ remapIn = NoValue /\ remapOut = NoValue
    /\ procIn = NoValue /\ procOut = NoValue

\* the assets handed to the processor of a started instance
StartBuffers ==
    {SourceJson(<<U_a_bin>>, <<U_t_png>>, <<"baseColorTexture">>),
     SourceGlb(<<<<>>>>, <<U_t_png, <<>>>>, <<"normalTexture", "baseColorTexture">>)}

\* processor.processBuffer(asset.source, fileName) as processAsset calls it
\* on the processor buildStart made; the processor holds the options object
\* of the plugin
UseProcessor ==
    /\ IF HookSkipped THEN FALSE ELSE processor # "undefined"
    /\ \E buffer \in StartBuffers :
         \E in \in {[buffer   |-> buffer,
                     fileName |-> IF buffer.form = "json" THEN N_s_gltf
                                  ELSE N_m_glb,
                     options  |-> processedOptions,
                     fault    |-> EngineFault(processor, processedOptions,
                                              "none")]} :
            /\ procIn' = in
            /\ procOut' = processBuffer(in.buffer, in.fileName, in.options,
                                        in.fault)
    /\ UNCHANGED <<mapperVars, resolverVars, remapVars, pluginVars, probeVars>>

\* the bundled part of the inputs of one generateBundle call: the bundle
\* the host passes, the way each of its glTF assets fails, and the assets
\* whose Buffer does not start at offset 0 of its ArrayBuffer
BundledInputs(options) ==
    UNION {{[host |-> h, faults |-> bf, shifted |-> sh] :
              bf \in [Range(findGLTFAssets(h, options)) -> BundledFaults],
              sh \in SUBSET {f \in Range(findGLTFAssets(h, options)) :
                                EndsWith(f, S_glb)}} :
           h \in HostBundles}

\* the public part: the result of glob and the way each file fails
PublicInputs ==
    UNION {{[files |-> f, faults |-> pf] :
              pf \in [Range(f) -> PublicFaults]} : f \in GlobResults}

\* a part in which nothing fails
QuietBundled(b) ==
    /\ b.host # EmptyMap
    /\ b.shifted = {}
    /\ \A f \in DOMAIN b.faults : b.faults[f] = "none"

QuietPublic(q) ==
    /\ q.files = <<P_a_gltf, P_b_gltf>>
    /\ \A f \in DOMAIN q.faults : q.faults[f] = "none"

\* the inputs that are drawn: every bundled part with the quiet public
\* part, every public part with the quiet bundled part, and the build that
\* has no glTF at all
BuildInputs(options) ==
    {in \in BundledInputs(options) \X PublicInputs :
        \/ QuietBundled(in[1])
        \/ QuietPublic(in[2])
        \/ (in[1].host = EmptyMap /\ in[2].files = <<>>)}

\* generateBundle(_, bundle)
GenerateBundle ==
    /\ builds < MaxBuilds
    /\ builds' = builds + 1
    /\ IF HookSkipped
       THEN /\ \E host \in HostBundles :
                  /\ bundle' = host
                  /\ trace' = NoTrace(config = NoValue, host)
            /\ UNCHANGED <<dependencyFiles, originalFilesToCleanup,
                           optimizationStats, sharedKTXCache, ktx2Assets>>
       ELSE \E in \in BuildInputs(processedOptions) :
              \E p \in {generateBundleHandler(
                          [bundle |-> in[1].host,
                           dependencyFiles |-> dependencyFiles,
                           originalFilesToCleanup |-> originalFilesToCleanup,
                           optimizationStats |-> optimizationStats,
                           sharedKTXCache |-> sharedKTXCache,
                           ktx2Assets |-> ktx2Assets,
                           log |-> <<>>, offered |-> <<>>, threw |-> FALSE],
                          in[2].files, processor, processedOptions,
                          in[1].faults @@ in[2].faults, in[1].shifted)} :
                  /\ bundle' = p.bundle
                  /\ dependencyFiles' = p.dependencyFiles
                  /\ originalFilesToCleanup' = p.originalFilesToCleanup
                  /\ optimizationStats' = p.optimizationStats
                  /\ sharedKTXCache' = p.sharedKTXCache
                  /\ ktx2Assets' = p.ktx2Assets
                  /\ trace' = [ran |-> TRUE, threw |-> p.threw,
                               proc |-> processor,
                               host |-> in[1].host, files |-> in[2].files,
                               faults |-> in[1].faults @@ in[2].faults,
                               cacheBefore |-> sharedKTXCache,
                               log |-> p.log, offered |-> p.offered]
    /\ UNCHANGED <<config, processedOptions, processor, isInitialized,
                   ktxAvailable, warnedAboutKTX, disk, otherVars>>

\* the host writes the files of the bundle and copies the public directory
\* into the output directory
HostWrite ==
    /\ config # NoValue
    /\ config.command = "build"
    /\ disk' = disk \cup (DOMAIN bundle) \cup (DOMAIN PublicFiles)
    /\ UNCHANGED <<config, processedOptions, processor, isInitialized,
                   ktxAvailable, warnedAboutKTX, dependencyFiles,
                   originalFilesToCleanup, optimizationStats, sharedKTXCache,
                   bundle, builds, trace, ktx2Assets, otherVars>>

\* writeBundle(options): locked are the files unlink cannot delete
WriteBundle ==
    /\ IF HookSkipped
       THEN disk' = disk
       ELSE \E locked \in SUBSET originalFilesToCleanup :
              disk' = cleanupOriginalDependencies(
                         disk, originalFilesToCleanup, locked)
    /\ UNCHANGED <<config, processedOptions, processor, isInitialized,
                   ktxAvailable, warnedAboutKTX, dependencyFiles,
                   originalFilesToCleanup, optimizationStats, sharedKTXCache,
                   bundle, builds, trace, ktx2Assets, otherVars>>

\* closeBundle(): prints closeBundleSummary(optimizationStats) in build
\* mode and changes nothing
CloseBundle ==
    /\ IF HookSkipped THEN TRUE
       ELSE Len(closeBundleSummary(optimizationStats).lines) >= 0
    /\ UNCHANGED <<pluginVars, otherVars>>

\* resolveId(id): returns resolveId(id, dependencyFiles) and changes nothing
ResolveId ==
    /\ \E id \in ModuleIds : resolveId(id, dependencyFiles).t \in {"null", "str"}
    /\ UNCHANGED <<pluginVars, otherVars>>

\* load(id): returns load(id) and changes nothing
Load ==
    /\ \E id \in LoadIds : load(id).t \in {"null", "str"}
    /\ UNCHANGED <<pluginVars, otherVars>>

-----------------------------------------------------------------------------
-----------------------------------------------------------------------------
(***************************************************************************)
(* buildStart in steps: the awaited checkKTXAvailable                      *)
(***************************************************************************)

\* { timeout: 4000 }, in ticks of one second
ExecTimeout == 4

\* execFile without the timeout option
ExecHasTimeout_None == FALSE

\* { timeout: 4000 }: execFile arms a timer that kills the child
ExecHasTimeout == TRUE

\* what the 'ktx' executable does: exits with 0, exits with an error, cannot
\* be spawned (the 'error' event), never exits by itself, or execFile throws
ToolBehaviours == {"succeeds", "fails", "missing", "hangs", "throws"}

NoPromise == [settled |-> FALSE, value |-> FALSE]

\* resolve(value): the first call settles the promise, later calls do nothing
Resolve(promise, value) ==
    IF promise.settled THEN promise ELSE [settled |-> TRUE, value |-> value]

IdleProbe ==
    [pc |-> "idle", tool |-> "none", child |-> "none", timer |-> "none",
     elapsed |-> 0, promise |-> NoPromise]

\* buildStart() up to its first await: the test of the command, and
\* checkKTXAvailable() when no answer is stored; the executor calls execFile and
\* resolves with false when it throws
CallBuildStart ==
    /\ ktxProbe.pc = "idle"
    /\ IF HookSkipped
       THEN UNCHANGED ktxProbe
       ELSE IF ShouldProbe(ktxAvailable)
       THEN \E tool \in ToolBehaviours :
               ktxProbe' =
                  IF tool = "throws"
                  THEN [IdleProbe EXCEPT !.pc = "awaiting", !.tool = tool,
                                         !.promise = Resolve(NoPromise, FALSE)]
                  ELSE [IdleProbe EXCEPT !.pc = "awaiting", !.tool = tool,
                                         !.child = "running",
                                         !.timer = IF ExecHasTimeout THEN "armed"
                                                   ELSE "none"]
       ELSE ktxProbe' = [IdleProbe EXCEPT !.pc = "init"]
    /\ UNCHANGED <<pluginVars, mapperVars, resolverVars, remapVars, procVars>>

\* the child exits by itself: (err) => resolve(!err)
ChildExits ==
    /\ ktxProbe.child = "running"
    /\ ktxProbe.tool \in {"succeeds", "fails"}
    /\ ktxProbe' = [ktxProbe EXCEPT
                      !.child = "closed", !.timer = "none",
                      !.promise = Resolve(@, ktxProbe.tool = "succeeds")]
    /\ UNCHANGED <<pluginVars, mapperVars, resolverVars, remapVars, procVars>>

\* the 'error' event of a child that could not be spawned: execFile calls
\* the callback with the error, and child.on('error', () => resolve(false))
ChildSpawnFails ==
    /\ ktxProbe.child = "running"
    /\ ktxProbe.tool = "missing"
    /\ ktxProbe' = [ktxProbe EXCEPT
                      !.child = "closed", !.timer = "none",
                      !.promise = Resolve(Resolve(@, FALSE), FALSE)]
    /\ UNCHANGED <<pluginVars, mapperVars, resolverVars, remapVars, procVars>>

\* a second passes while the child runs
Tick ==
    /\ ktxProbe.child = "running"
    /\ ktxProbe.timer = "armed"
    /\ ktxProbe.elapsed < ExecTimeout
    /\ ktxProbe' = [ktxProbe EXCEPT !.elapsed = @ + 1]
    /\ UNCHANGED <<pluginVars, mapperVars, resolverVars, remapVars, procVars>>

\* the timer of execFile fires: child.kill(killSignal)
TimerFires ==
    /\ ktxProbe.child = "running"
    /\ ktxProbe.timer = "armed"
    /\ ktxProbe.elapsed = ExecTimeout
    /\ ktxProbe' = [ktxProbe EXCEPT !.child = "killed", !.timer = "none"]
    /\ UNCHANGED <<pluginVars, mapperVars, resolverVars, remapVars, procVars>>

\* the killed child closes: the callback gets the error of the kill
KilledChildCloses ==
    /\ ktxProbe.child = "killed"
    /\ ktxProbe' = [ktxProbe EXCEPT !.child = "closed",
                                    !.promise = Resolve(@, FALSE)]
    /\ UNCHANGED <<pluginVars, mapperVars, resolverVars, remapVars, procVars>>

\* ktxAvailable = await checkKTXAvailable(), and the branch on the answer
ResumeBuildStart ==
    /\ ktxProbe.pc = "awaiting"
    /\ ktxProbe.promise.settled
    /\ ktxAvailable' = Bool(ktxProbe.promise.value)
    /\ warnedAboutKTX' = (warnedAboutKTX \/ ~ktxProbe.promise.value)
    /\ processedOptions' = IF ktxProbe.promise.value THEN processedOptions
                           ELSE ForceManual(processedOptions)
    /\ ktxProbe' = [ktxProbe EXCEPT !.pc = "init"]
    /\ UNCHANGED <<config, processor, isInitialized, dependencyFiles,
                   originalFilesToCleanup, optimizationStats, sharedKTXCache,
                   bundle, disk, builds, trace, ktx2Assets, mapperVars,
                   resolverVars, remapVars, procVars>>

\* if (!isInitialized) { processor = new GLTFProcessor(processedOptions);
\* await processor.initialize(); isInitialized = true }, and the return
InitializeProcessor ==
    /\ ktxProbe.pc = "init"
    /\ \E initFails \in BOOLEAN :
         LET constructing == ShouldConstruct(isInitialized)
             fails == constructing
                        /\ InitializeThrows(processedOptions, initFails)
         IN  /\ processor' = IF ~constructing THEN processor
                             ELSE IF fails THEN "constructed"
                             ELSE "initialized"
             /\ isInitialized' = IF constructing /\ ~fails THEN TRUE
                                 ELSE isInitialized
    /\ ktxProbe' = [ktxProbe EXCEPT !.pc = "idle"]
    /\ UNCHANGED <<config, processedOptions, ktxAvailable, warnedAboutKTX,
                   dependencyFiles, originalFilesToCleanup, optimizationStats,
                   sharedKTXCache, bundle, disk, builds, trace, ktx2Assets,
                   mapperVars, resolverVars, remapVars, procVars>>

\* a plugin instance of every texture mode and geometry codec, before any
\* hook has run
ProbeInit ==
    /\ processedOptions \in {ProcessedOptionsOf(u) : u \in PluginUserOptions}
    /\ config = NoValue
    /\ processor = "undefined"
    /\ isInitialized = FALSE
    /\ ktxAvailable = Null
    /\ warnedAboutKTX = FALSE
    /\ dependencyFiles = {}
    /\ originalFilesToCleanup = {}
    /\ optimizationStats = <<>>
    /\ sharedKTXCache = EmptyMap
    /\ bundle = EmptyMap
    /\ disk = {}
    /\ builds = 0
    /\ trace = NoTrace(FALSE, EmptyMap)
    /\ ktx2Assets = {}
    /\ ktxProbe = IdleProbe
    /\ mapIn = NoValue /\ mapOut = NoValue
    /\ userOptions = NoValue /\ resolved = NoValue /\ resolverPc = "idle"
    /\ remapIn = NoValue /\ remapOut = NoValue
    /\ procIn = NoValue /\ procOut = NoValue

vars == <<mapperVars, resolverVars, remapVars, procVars, pluginVars, probeVars>>

MapperNext == ApplyRank

SpecMapper == MapperInit /\ [][MapperNext]_vars

ResolverNext == ProcessOptionsCall \/ ValidateOptionsCall

SpecResolver == ResolverInit /\ [][ResolverNext]_vars

MergeNext == ProcessOptionsCall

SpecMerge == MergeInit /\ [][MergeNext]_vars

RemapNext == ApplyNamespace

SpecRemap == RemapInit /\ [][RemapNext]_vars

ProcNext == CallProcessBuffer

SpecProcessor == ProcInit /\ [][ProcNext]_vars

LoadNext == CallLoadExternalResources

SpecLoad == LoadInit /\ [][LoadNext]_vars

PluginNext ==
    \/ ConfigResolved
    \/ BuildStart
    \/ GenerateBundle
    \/ HostWrite
    \/ WriteBundle
    \/ CloseBundle
    \/ ResolveId
    \/ Load

SpecPlugin == PluginInit /\ [][PluginNext]_vars

StartNext ==
    \/ ConfigResolved
    \/ BuildStart
    \/ UseProcessor

SpecStart == StartInit /\ [][StartNext]_vars

\* the steps the event loop takes once buildStart has been called
ProbeProgress ==
    \/ ChildExits
    \/ ChildSpawnFails
    \/ Tick
    \/ TimerFires
    \/ KilledChildCloses
    \/ ResumeBuildStart
    \/ InitializeProcessor

ProbeNext ==
    \/ ConfigResolved
    \/ CallBuildStart
    \/ ProbeProgress

\* the host may never call a hook; a child that exits, a timer that is due
\* and a settled promise that is awaited are always served
SpecProbe == ProbeInit /\ [][ProbeNext]_vars /\ WF_vars(ProbeProgress)


-----------------------------------------------------------------------------
(***************************************************************************)
(* Claims                                                                  *)
(***************************************************************************)

\* a number of the closed unit interval
IsUnitNumber(x) == x.t = "num" /\ x.v >= 0 /\ x.v <= Milli

\* a positive integer
IsPositiveInteger(x) == x.t = "num" /\ x.v > 0 /\ x.v % Milli = 0

\* every key that ProcessedOptions requires is present with a value (exclude
\* alone may be undefined)
FullyPopulated(o) ==
    /\ {"level", "include", "exclude", "verbose", "geometry", "textures"}
          \subseteq DOMAIN o
    /\ \A k \in {"level", "include", "verbose"} : o[k] \notin {Undefined, Absent}
    /\ o.geometry.t = "obj"
    /\ {"compress", "quality", "speed", "precision"} \subseteq DOMAIN o.geometry.o
    /\ \A k \in DOMAIN o.geometry.o : o.geometry.o[k] \notin {Undefined, Absent}
    /\ o.textures.t = "obj"
    /\ {"mode", "quality", "maxSize", "etc1sPatterns", "uastcPatterns"}
          \subseteq DOMAIN o.textures.o
    /\ \A k \in DOMAIN o.textures.o : o.textures.o[k] \notin {Undefined, Absent}

\* the external uris that the JSON text refers to
ReferencedUris(buffer) ==
    {buffer.buffers[i] : i \in 1..Len(buffer.buffers)}
      \cup {buffer.images[i] : i \in 1..Len(buffer.images)}

ExternalUris(buffer) == {u \in ReferencedUris(buffer) : IsExternalUri(u)}

\* C2: after the namespacing step of a .gltf asset, every non-data
\* buffers[].uri and images[].uri of the rewritten JSON is exactly a key of the
\* remapped resource map, for every result of the transform engine.
C2_RemapConsistent ==
    (remapOut # NoValue /\ remapOut.buffer.form = "json")
       => ExternalUris(remapOut.buffer) \subseteq Keys(remapOut.resources)

\* the call was bound to fail: bytes that do not parse as the container the
\* file name selects, an unsupported extension, or a fault of the library
ProcMustFail ==
    \/ ContainerForm(procIn.fileName) = "unsupported"
    \/ procIn.buffer.form # ContainerForm(procIn.fileName)
    \/ procIn.fault # "none"

\* C4: processBuffer never throws; it returns exactly the input buffer when
\* parsing, a transform or the serialization fails or the extension is
\* unsupported, and the serialized optimized document otherwise.
C4_ProcessBufferTotal ==
    procOut # NoValue =>
       /\ ~procOut.threw
       /\ ProcMustFail => procOut.value = procIn.buffer
       /\ ~ProcMustFail =>
             /\ procOut.value.form = "glb"
             /\ procOut.value.body.applied # <<>>
             /\ procOut.value.buffers = procIn.buffer.buffers

\* reached: a well-formed binary container whose texture transform failed
\* came back as the input, and so did corrupt bytes
C4_Witness ==
    /\ procOut # NoValue
    /\ procOut.value = procIn.buffer
    /\ \/ (procIn.buffer.form = "glb" /\ procIn.fileName = N_m_glb
           /\ procIn.fault = "texture")
       \/ (procIn.buffer = CorruptBytes /\ procIn.fileName = N_m_glb
           /\ procIn.fault = "none")

\* C6: processOptions followed by validateOptions never throws, and returns a
\* fully populated record whose geometry.quality, geometry.speed,
\* geometry.precision and textures.quality lie in [0,1] and whose
\* textures.maxSize is a positive integer, for every drawn partial input.
C6_TotalResolver ==
    /\ resolverPc # "threw"
    /\ resolverPc = "validated" =>
          /\ FullyPopulated(resolved)
          /\ IsUnitNumber(resolved.geometry.o.quality)
          /\ IsUnitNumber(resolved.geometry.o.speed)
          /\ IsUnitNumber(resolved.geometry.o.precision)
          /\ IsUnitNumber(resolved.textures.o.quality)
          /\ IsPositiveInteger(resolved.textures.o.maxSize)

\* reached: an input with a NaN quality, an infinite precision and a
\* fractional maxSize has been resolved and validated
C6_Witness ==
    /\ resolverPc = "validated"
    /\ Get(userOptions, "geometry").t = "obj"
    /\ Get(userOptions.geometry.o, "quality") = NaN
    /\ Get(userOptions.geometry.o, "precision") = NegInf
    /\ Get(userOptions, "textures").t = "obj"
    /\ Get(userOptions.textures.o, "maxSize") = Num(512 * Milli + 500)
    /\ resolved.geometry.o.quality = Num(750)
    /\ resolved.textures.o.maxSize = Num(1024 * Milli)

\* C10: the rank of a texture whose intended mode is UASTC is strictly greater
\* than the rank of any texture whose intended mode is ETC1S, whatever the two
\* quality values, and within one intended mode the rank is non-decreasing in
\* the quality value.
C10_RankOrdering ==
    mapOut # NoValue =>
       /\ (mapOut.a.intended = "uastc" /\ mapOut.b.intended = "etc1s")
             => mapOut.a.rank > mapOut.b.rank
       /\ (mapOut.a.intended = mapOut.b.intended
           /\ mapIn.a.quality <= mapIn.b.quality)
             => mapOut.a.rank <= mapOut.b.rank

\* reached: the lowest-quality UASTC texture has been ranked against the
\* highest-quality ETC1S texture
C10_Witness ==
    /\ mapOut # NoValue
    /\ mapOut.a.intended = "uastc" /\ mapIn.a.quality = 0
    /\ mapOut.b.intended = "etc1s" /\ mapIn.b.quality = Milli
    /\ mapOut.a.uastc = 4 /\ mapOut.b.etcQ = 255

-----------------------------------------------------------------------------
(***************************************************************************)
(* Properties of the plugin.  trace describes the last generateBundle      *)
(* call: trace.log has one entry per asset the call reached, in order, and *)
(* trace.offered one entry per .ktx2 resource the emit loop met, in order. *)
(***************************************************************************)

LogNames(log) == [i \in 1..Len(log) |-> log[i].name]

\* the .ktx2 candidates of the last call for one output path, in order
CandidatesAt(path) ==
    LET AtPath(c) == c.path = path
    IN  SelectSeq(trace.offered, AtPath)

Greatest(S) == CHOOSE r \in S : \A q \in S : q <= r

\* C1: when two public-source assets of one build offer a .ktx2 resource
\* for the same output path that no earlier build has cached, one encoded
\* as UASTC and one as ETC1S, the bundle holds the UASTC bytes at that path
\* after generateBundle, whichever of the two was processed first.
C1_HighFidelityWins ==
    trace.ran =>
        \A i, j \in 1..Len(trace.offered) :
            (/\ trace.offered[i].path = trace.offered[j].path
             /\ trace.offered[i].path \notin DOMAIN trace.cacheBefore
             /\ trace.offered[i].buffer.enc = "uastc"
             /\ trace.offered[j].buffer.enc = "etc1s")
            => /\ trace.offered[i].path \in DOMAIN bundle
               /\ bundle[trace.offered[i].path].source.enc = "uastc"

\* C3: when processFile took its catch path for a public-source asset, the
\* glTF emitted into the bundle for it names the buffer and image uris of
\* the original file.
C3_FallbackKeepsOriginal ==
    trace.ran =>
        \A i \in 1..Len(trace.log) :
            (trace.log[i].kind = "public" /\ trace.log[i].outcome = "fallback")
            => /\ bundle[trace.log[i].name].source.buffers
                    = PublicFiles[trace.log[i].name].buffers
               /\ bundle[trace.log[i].name].source.images
                    = PublicFiles[trace.log[i].name].images

\* C5: a generateBundle call in build mode does not throw and reaches every
\* matching bundled asset and then every public-source file, in order,
\* whichever of them fail; an asset that can be read is emitted when a
\* processor exists, and is optimized when the processor is initialized and
\* the library does not fail on it.
C5_FailureIsolation ==
    trace.ran =>
        LET gltfAssets == findGLTFAssets(trace.host, processedOptions)
        IN  /\ ~trace.threw
            /\ LogNames(trace.log) = gltfAssets \o trace.files
            /\ \A i \in 1..Len(trace.log) :
                 LET entry == trace.log[i]
                 IN  /\ entry.kind = IF i <= Len(gltfAssets) THEN "bundled"
                                     ELSE "public"
                     /\ (/\ trace.proc # "undefined"
                         /\ trace.faults[entry.name] # "unreadable")
                        => /\ entry.outcome # "threw"
                           /\ entry.name \in DOMAIN bundle
                     /\ (/\ trace.proc = "initialized"
                         /\ trace.faults[entry.name] = "none")
                        => entry.outcome = "ok"

\* a build in which one public-source file could not be read and a later
\* one was optimized
C5_Witness ==
    /\ trace.ran
    /\ \E i, j \in 1..Len(trace.log) :
         /\ i < j
         /\ trace.log[i].outcome = "threw"
         /\ trace.log[j].kind = "public"
         /\ trace.log[j].outcome = "ok"

C8_CleanupOrdering ==
    [][~(disk \subseteq disk') =>
          /\ WriteBundle
          /\ config # NoValue
          /\ config.command = "build"
          /\ (disk \ disk') \subseteq originalFilesToCleanup]_vars

\* the output directory was written and the original image has been
\* removed from it, the encoded texture being there
C8_Witness ==
    /\ disk # {}
    /\ P_t_png \in originalFilesToCleanup
    /\ P_t_png \notin disk
    /\ P_t_ktx2 \in disk

\* C9: after a generateBundle call in build mode, at every path of the
\* shared cache: a candidate was written exactly when no entry was cached
\* or its rank was strictly greater than the ranks seen before it for the
\* path; the cached rank is the greatest rank seen for the path and not
\* less than the rank cached before the call; the cached bytes and the
\* bundle entry are those of the last candidate written, so that a
\* candidate of equal rank leaves the earlier bytes; and when no candidate
\* was written the entry is the one cached before and the bundle has no
\* entry for the path.
C9_StrictReplace ==
    trace.ran =>
        /\ DOMAIN sharedKTXCache
             = (DOMAIN trace.cacheBefore)
                 \cup {trace.offered[i].path : i \in 1..Len(trace.offered)}
        /\ \A path \in DOMAIN sharedKTXCache :
             LET cands == CandidatesAt(path)
                 had   == path \in DOMAIN trace.cacheBefore
                 ranks == {cands[i].rank : i \in 1..Len(cands)}
                            \cup (IF had THEN {trace.cacheBefore[path].rank}
                                  ELSE {})
                 written ==
                     {i \in 1..Len(cands) :
                        /\ \A j \in 1..(i - 1) : cands[j].rank < cands[i].rank
                        /\ had => trace.cacheBefore[path].rank < cands[i].rank}
             IN  /\ sharedKTXCache[path].rank = Greatest(ranks)
                 /\ had => sharedKTXCache[path].rank
                             >= trace.cacheBefore[path].rank
                 /\ IF written = {}
                    THEN /\ had
                         /\ sharedKTXCache[path] = trace.cacheBefore[path]
                         /\ path \notin DOMAIN bundle
                    ELSE /\ sharedKTXCache[path]
                              = [rank   |-> cands[Greatest(written)].rank,
                                 buffer |-> cands[Greatest(written)].buffer]
                         /\ path \in DOMAIN bundle
                         /\ bundle[path]
                              = Asset(cands[Greatest(written)].buffer)

\* two candidates of equal rank and different bytes were offered for one
\* path and the cache and the bundle hold the bytes of the first
C9_Witness ==
    /\ trace.ran
    /\ \E i, j \in 1..Len(trace.offered) :
         /\ i < j
         /\ trace.offered[i].path = trace.offered[j].path
         /\ trace.offered[i].path \notin DOMAIN trace.cacheBefore
         /\ trace.offered[i].rank = trace.offered[j].rank
         /\ trace.offered[i].buffer # trace.offered[j].buffer
         /\ sharedKTXCache[trace.offered[i].path].buffer
              = trace.offered[i].buffer
         /\ bundle[trace.offered[i].path].source = trace.offered[i].buffer

\* C11: after the namespacing step of a public-source .gltf asset, for every
\* external buffer uri u the engine returned (whatever its extension, with or
\* without a .ktx2 resource), the remapped resources have the key
\* <base>_bin/u (u without a leading "./") and the buffer uri of the rewritten
\* JSON is that key.
C11_BuffersNamespaced ==
    (remapOut # NoValue /\ EndsWith(ToLowerCase(remapIn.gltfName), S_gltf))
       => \A i \in 1..Len(remapIn.buffer.buffers) :
             IsExternalUri(remapIn.buffer.buffers[i])
             => LET key == BinPrefix(remapIn.gltfName)
                             \o StripDotSlash(remapIn.buffer.buffers[i])
                IN  /\ key \in Keys(remapOut.resources)
                    /\ remapOut.buffer.buffers[i] = key

\* C12: while the resolved command is 'serve', resolveId returns null for
\* every id.
C12_ServeResolvesNothing ==
    (config # NoValue /\ config.command = "serve")
       => \A id \in ModuleIds : resolveId(id, dependencyFiles) = Null

\* C12, the part about the state: a hook call in serve mode leaves the
\* dependency files, the pending cleanup, the statistics, the shared cache,
\* the KTX flag, the options, the processor and the output directory as they
\* were, and the bundle it is handed as the host passed it.
C12_ServeFrame ==
    [][(config # NoValue /\ config.command = "serve" /\ config' = config)
          => /\ UNCHANGED <<dependencyFiles, originalFilesToCleanup,
                            optimizationStats, sharedKTXCache, ktxAvailable,
                            warnedAboutKTX, processedOptions, processor,
                            isInitialized, disk>>
             /\ bundle' # bundle => bundle' = trace'.host]_vars


\* the names of the transforms an optimized container records
AppliedNames(buffer) ==
    {buffer.body.applied[i].name : i \in 1..Len(buffer.body.applied)}

\* the degraded state: no processor exists before the probe has answered;
\* once the probe reported the tool missing, textures.mode is 'manual', the
\* texture step is the resize and recompression transform alone, and an asset
\* the processor optimized went through that transform, through no ETC1S or
\* UASTC encoding, and kept the uris of its images
DegradedTextures ==
    /\ processor # "undefined" => ktxAvailable # Null
    /\ ktxAvailable = Bool(FALSE) =>
          /\ processedOptions.textures.o.mode = Str("manual")
          /\ \A t \in Range(TextureTransforms(processedOptions)) :
                t.name = "textureCompress"
          /\ (procOut # NoValue /\ procOut.value # procIn.buffer) =>
                /\ "textureCompress" \in AppliedNames(procOut.value)
                /\ "toktx" \notin AppliedNames(procOut.value)
                /\ procOut.value.images = procIn.buffer.images

\* C13: for every configured texture mode, the buildStart call in which the
\* probe reports the KTX tool missing goes on to construct and initialize the
\* processor (it throws only if the Draco modules fail to load), textures.mode
\* is 'manual' before a processor exists, and from then on the texture step of
\* every asset is the resize and recompression transform alone, with no ETC1S
\* or UASTC encoding.
C13_DegradeWithoutKTX ==
    /\ []DegradedTextures
    /\ [][\A initFails \in BOOLEAN :
             (~HookSkipped /\ ktxAvailable = Null
                /\ BuildStartWith(FALSE, initFails)
                /\ ~InitializeThrows(processedOptions, initFails))
          => /\ ktxAvailable' = Bool(FALSE)
             /\ processedOptions'.textures.o.mode = Str("manual")
             /\ processor' = "initialized"
             /\ isInitialized']_vars

\* reached: an instance configured for UASTC whose probe failed optimized an
\* asset with the resize transform only
C13_Witness ==
    /\ ktxAvailable = Bool(FALSE)
    /\ warnedAboutKTX
    /\ procOut # NoValue
    /\ procOut.value # procIn.buffer
    /\ "textureCompress" \in AppliedNames(procOut.value)
    /\ \E u \in PluginUserOptions :
          /\ ProcessedOptionsOf(u).textures.o.mode = Str("uastc")
          /\ procIn.options = ForceManual(ProcessedOptionsOf(u))


\* C14: over the buildStart calls of one instance, an answer of the probe is
\* never replaced (the probe runs at most once), the warning flag once set
\* stays set (the warning is printed at most once), a processor whose
\* initialization succeeded is never constructed or initialized again, and a
\* build-mode buildStart that returns normally leaves the processor
\* initialized; the processor is initialized exactly when isInitialized.
C14_OnceOnly ==
    /\ [](isInitialized <=> processor = "initialized")
    /\ [][/\ ktxAvailable # Null => ktxAvailable' = ktxAvailable
          /\ warnedAboutKTX => warnedAboutKTX'
          /\ warnedAboutKTX' # warnedAboutKTX => ktxAvailable = Null
          /\ isInitialized => (isInitialized' /\ processor' = processor)
          /\ \A probe \in BOOLEAN, initFails \in BOOLEAN :
                (~HookSkipped /\ BuildStartWith(probe, initFails)
                   /\ ~(ShouldConstruct(isInitialized)
                          /\ InitializeThrows(processedOptions, initFails)))
                => (isInitialized' /\ processor' = "initialized")]_vars

\* reached: the first buildStart threw in initialize (the processor it left
\* behind failed on an asset), a later one succeeded, and the probe had
\* reported the tool missing
C14_Witness ==
    /\ isInitialized
    /\ processor = "initialized"
    /\ ktxAvailable = Bool(FALSE)
    /\ warnedAboutKTX
    /\ procOut # NoValue
    /\ procIn.fault = "geometry"


\* the names under which the last generateBundle call recorded statistics:
\* its public-source assets that did not throw, in the order processed
ProcessedPublicNames ==
    LET Counted(entry) == entry.kind = "public" /\ entry.outcome # "threw"
        counted == SelectSeq(trace.log, Counted)
    IN  [i \in 1..Len(counted) |-> PosixBasename(counted[i].name)]

\* C15: after any sequence of builds on one instance, the summary closeBundle
\* prints lists exactly the public-source assets the current build processed,
\* each once.
C15_StatsOfCurrentBuild ==
    trace.ran =>
       closeBundleSummary(optimizationStats).lines = ProcessedPublicNames


\* the geometry codec transforms among the transforms a container records
CodecTransforms(buffer) ==
    LET IsCodec(t) == t.name \in {"meshopt", "draco"}
    IN  SelectSeq(buffer.body.applied, IsCodec)

\* C16: in an optimized container the codec transforms that follow the
\* quantization are, for 'meshopt', one mesh-compression transform at the
\* level of toMeshoptParams; for 'both', a mesh-compression transform and
\* then the Draco encoding; for 'draco', the Draco encoding alone; and for
\* 'quantize' or false, none.
C16_SelectedCodecApplied ==
    (procOut # NoValue /\ ~ProcMustFail) =>
       LET g        == procIn.options.geometry.o
           codecs   == CodecTransforms(procOut.value)
           meshoptT == [name  |-> "meshopt",
                        level |-> toMeshoptParams(g.quality.v).level]
           dracoT   == [name   |-> "draco",
                        params |-> toDracoParams(g.quality.v, g.speed.v,
                                                 g.precision.v)]
       IN  codecs = CASE g.compress = Str("meshopt") -> <<meshoptT>>
                      [] g.compress = Str("both")    -> <<meshoptT, dracoT>>
                      [] g.compress = Str("draco")   -> <<dracoT>>
                      [] OTHER -> <<>>


\* the toktx transforms of one encoding among the transforms a container
\* records
EncodingPasses(buffer, mode) ==
    LET IsPass(t) == t.name = "toktx" /\ t.mode = mode
    IN  SelectSeq(buffer.body.applied, IsPass)

\* C17: in a container optimized with textures.mode 'manual', a non-empty
\* etc1sPatterns gives an ETC1S encoding pass over the slots the patterns
\* match, and a non-empty uastcPatterns a UASTC encoding pass over the slots
\* those patterns match.
C17_ManualAppliesPatterns ==
    (procOut # NoValue /\ ~ProcMustFail
       /\ procIn.options.textures.o.mode = Str("manual")) =>
       LET x == procIn.options.textures.o
       IN  /\ Len(x.etc1sPatterns.a) > 0 =>
                \E i \in DOMAIN EncodingPasses(procOut.value, "etc1s") :
                   EncodingPasses(procOut.value, "etc1s")[i].slots
                      = SlotPattern(x.etc1sPatterns, {})
           /\ Len(x.uastcPatterns.a) > 0 =>
                \E i \in DOMAIN EncodingPasses(procOut.value, "uastc") :
                   EncodingPasses(procOut.value, "uastc")[i].slots
                      = SlotPattern(x.uastcPatterns, {})


\* the layer supplies a value for the key: the key is there and its value
\* is not undefined
Supplied(layer, key) == key \in DOMAIN layer /\ layer[key] # Undefined

\* the fields a layer supplies under geometry or textures
NestedLayer(layer, key) ==
    IF Supplied(layer, key) /\ layer[key].t = "obj" THEN layer[key].o
    ELSE EmptyObj

\* the value of the first layer that supplies the key, the user's before the
\* preset's before the built-in default
Precedence(user, preset, default, key) ==
    IF Supplied(user, key) THEN user[key]
    ELSE IF Supplied(preset, key) THEN preset[key]
    ELSE default[key]

\* the preset of the level the user gave, if any
RequestedPreset(user) ==
    IF Supplied(user, "level") THEN getPreset(user.level.s) ELSE EmptyObj

\* C18: every field of the record processOptions returns, at the top level
\* and under geometry and textures, is the user's value if the user supplied
\* one that is not undefined, else the value of the preset of the requested
\* level if a level was given and the preset defines the field, else the
\* built-in default; false, arrays and regular expressions are taken over
\* whole.
C18_MergePrecedence ==
    resolverPc = "processed" =>
       LET preset == RequestedPreset(userOptions)
           Nested(key) ==
               Obj([k \in DOMAIN baseDefaults[key].o |->
                      Precedence(NestedLayer(userOptions, key),
                                 NestedLayer(preset, key),
                                 baseDefaults[key].o, k)])
       IN  resolved =
             [k \in DOMAIN baseDefaults |->
                IF k \in {"geometry", "textures"} THEN Nested(k)
                ELSE Precedence(userOptions, preset, baseDefaults, k)]

\* reached: with level 'aggressive', compress false, an undefined quality and
\* a pattern list from the user, the result has the user's false and list,
\* the preset's quality and speed and the default mode of the textures
C18_Witness ==
    /\ resolverPc = "processed"
    /\ Get(userOptions, "level") = Str("aggressive")
    /\ Get(userOptions, "geometry").t = "obj"
    /\ Get(userOptions.geometry.o, "compress") = Bool(FALSE)
    /\ "quality" \in DOMAIN userOptions.geometry.o
    /\ userOptions.geometry.o.quality = Undefined
    /\ Get(userOptions, "textures").t = "obj"
    /\ Get(userOptions.textures.o, "etc1sPatterns") = UserEtc1sPatterns
    /\ resolved.geometry.o.compress = Bool(FALSE)
    /\ resolved.geometry.o.quality = Num(500)
    /\ resolved.geometry.o.speed = Num(300)
    /\ resolved.textures.o.etc1sPatterns = UserEtc1sPatterns
    /\ resolved.textures.o.uastcPatterns = Arr(<<>>)
    /\ resolved.textures.o.mode = Str("auto")


\* the value the claim gives a checked field: its default when the value is
\* not a number of [0,1], respectively not a positive integer, else the value
AfterValidation(nested, key, value) ==
    IF nested = "geometry" /\ key = "quality" /\ ~IsUnitNumber(value)
    THEN Num(750)
    ELSE IF nested = "geometry" /\ key = "speed" /\ ~IsUnitNumber(value)
    THEN Num(500)
    ELSE IF nested = "geometry" /\ key = "precision" /\ ~IsUnitNumber(value)
    THEN Num(800)
    ELSE IF nested = "textures" /\ key = "quality" /\ ~IsUnitNumber(value)
    THEN Num(750)
    ELSE IF nested = "textures" /\ key = "maxSize" /\ ~IsPositiveInteger(value)
    THEN Num(1024 * Milli)
    ELSE value

\* C19: a call of validateOptions that returns sets each of geometry.quality,
\* geometry.speed, geometry.precision and textures.quality that is NaN or
\* outside [0,1] to 0.75, 0.5, 0.8 and 0.75, and a textures.maxSize that is
\* not a positive integer to 1024, whatever the level; it leaves every other
\* field as it was; and validating the result again changes nothing.
C19_ValidateExactlyInvalid ==
    [][resolverPc' = "validated" =>
          /\ DOMAIN resolved' = DOMAIN resolved
          /\ \A k \in DOMAIN resolved :
                IF k \in {"geometry", "textures"}
                THEN /\ resolved'[k].t = "obj"
                     /\ DOMAIN resolved'[k].o = DOMAIN resolved[k].o
                     /\ \A f \in DOMAIN resolved[k].o :
                           resolved'[k].o[f]
                              = AfterValidation(k, f, resolved[k].o[f])
                ELSE resolved'[k] = resolved[k]
          /\ ~ValidateThrows(resolved')
          /\ validateOptions(resolved') = resolved']_vars

\* reached: with level 'light' a NaN geometry.quality became 0.75, not the
\* 0.9 of the preset, a fractional maxSize became 1024, and the precision of
\* the preset and the mode of the user stayed
C19_Witness ==
    /\ resolverPc = "validated"
    /\ Get(userOptions, "level") = Str("light")
    /\ Get(userOptions, "geometry").t = "obj"
    /\ Get(userOptions.geometry.o, "quality") = NaN
    /\ "precision" \notin DOMAIN userOptions.geometry.o
    /\ Get(userOptions, "textures").t = "obj"
    /\ Get(userOptions.textures.o, "maxSize") = Num(512 * Milli + 500)
    /\ Get(userOptions.textures.o, "mode") = Str("uastc")
    /\ resolved.geometry.o.quality = Num(750)
    /\ resolved.geometry.o.precision = Num(950)
    /\ resolved.textures.o.maxSize = Num(1024 * Milli)
    /\ resolved.textures.o.mode = Str("uastc")


\* the position, normal and texcoord bit depths of toQuantizationBits
BitDepths(bits) ==
    <<bits.quantizePosition, bits.quantizeNormal, bits.quantizeTexcoord>>

\* C20: for every precision, inside [0,1] or not, toQuantizationBits gives
\* position bits in 10..16, normal bits in 8..10, texcoord bits in 10..12 and
\* 8 bits for color and weight; a precision at or below 0 gives the lowest
\* and one at or above 1 the highest depths; of two precisions the greater
\* never gives fewer bits; and toDracoParams gives the same three depths for
\* the same precision, whatever its quality and speed.
C20_QuantizationBits ==
    mapOut # NoValue =>
       /\ \A x \in {"a", "b"} :
             LET bits == mapOut[x].bits
                 p    == mapIn[x].quality
             IN  /\ bits.quantizePosition \in 10..16
                 /\ bits.quantizeNormal \in 8..10
                 /\ bits.quantizeTexcoord \in 10..12
                 /\ bits.quantizeColor = 8
                 /\ bits.quantizeWeight = 8
                 /\ p <= 0 => BitDepths(bits) = <<10, 8, 10>>
                 /\ p >= Milli => BitDepths(bits) = <<16, 10, 12>>
                 /\ mapOut[x].draco.quantizationBits
                       = [POSITION   |-> bits.quantizePosition,
                          NORMAL     |-> bits.quantizeNormal,
                          TEXCOORD_0 |-> bits.quantizeTexcoord]
       /\ mapIn.a.quality <= mapIn.b.quality =>
             \A i \in 1..3 :
                BitDepths(mapOut.a.bits)[i] <= BitDepths(mapOut.b.bits)[i]

\* reached: a precision of -1 and a precision of 2 have been mapped, to the
\* lowest and the highest depths
C20_Witness ==
    /\ mapOut # NoValue
    /\ mapIn.a.quality = 0 - Milli
    /\ mapIn.b.quality = 2 * Milli
    /\ BitDepths(mapOut.a.bits) = <<10, 8, 10>>
    /\ BitDepths(mapOut.b.bits) = <<16, 10, 12>>
    /\ mapOut.a.draco.quantizationBits.POSITION = 10


\* the file name passes the include pattern and not the exclude pattern
Selected(fileName) ==
    /\ RegExpTest(processedOptions.include, fileName)
    /\ ~(processedOptions.exclude # Undefined
         /\ RegExpTest(processedOptions.exclude, fileName))

\* C21: every asset the engine processed in a generateBundle call, bundled or
\* found by the scan of the public directory, and every glTF entry of the
\* bundle the call created or replaced, has a name that passes the include
\* pattern and does not match the exclude pattern.
C21_PatternsSelect ==
    trace.ran =>
       /\ \A i \in 1..Len(trace.log) :
             trace.log[i].outcome # "threw" => Selected(trace.log[i].name)
       /\ \A k \in DOMAIN bundle :
             (/\ ContainerForm(k) # "unsupported"
              /\ (k \notin DOMAIN trace.host \/ bundle[k] # trace.host[k]))
             => Selected(k)


\* the uris of the container's images and buffers that name a file
FileUris(json) ==
    {u \in Range(json.images) \cup Range(json.buffers) : IsExternalUri(u)}

\* C22: for every JSON container and every set of missing or unreadable
\* sibling files, loadExternalResources does not throw, and the keys of the
\* map it returns are exactly the uris of images and buffers that are not
\* data: uris and whose file could be read, each once and with the bytes of
\* its file.
C22_LoadDegrades ==
    procOut # NoValue =>
       /\ ~procOut.threw
       /\ Keys(procOut.resources)
             = {u \in FileUris(procIn.json) :
                   PosixJoin(procIn.baseDir, u) \notin procIn.unreadable}
       /\ Cardinality(Keys(procOut.resources)) = Len(procOut.resources)
       /\ \A i \in 1..Len(procOut.resources) :
             procOut.resources[i].buf
                = FileBytes(PosixJoin(procIn.baseDir, procOut.resources[i].uri))

\* reached: of two images and a buffer the first image was unreadable, the
\* second image and the buffer were loaded
C22_Witness ==
    /\ procOut # NoValue
    /\ procIn.json.images = <<U_sub_t_png, U_dot_t_png>>
    /\ procIn.json.buffers = <<U_a_bin>>
    /\ procIn.unreadable = {PosixJoin(D_models, U_sub_t_png)}
    /\ Keys(procOut.resources) = {U_dot_t_png, U_a_bin}


\* the string begins with the characters of the virtual prefix
HasVirtualPrefix(id) ==
    /\ Len(id) >= Len(VirtualPrefix)
    /\ SubSeq(id, 1, Len(VirtualPrefix)) = VirtualPrefix

\* C23: in every state the hooks can be called in, resolveId answers the
\* virtual id of the normalized path for every module id whose normalized
\* path is in the dependency-file set, and load answers the stub module for
\* exactly the ids that begin with the virtual prefix and null for the rest;
\* both are functions of the id and the set and assign to no variable.
C23_DependencyInterception ==
    /\ \A id \in ModuleIds :
          PosixNormalize(id) \in dependencyFiles
          => resolveId(id, dependencyFiles)
                = Str(VirtualPrefix \o PosixNormalize(id))
    /\ \A id \in LoadIds \cup ModuleIds :
          load(id) = IF HasVirtualPrefix(id) THEN Str(StubModule) ELSE Null

\* reached: assets/a.bin is a dependency file and the id assets/./a.bin is
\* answered with the virtual id of assets/a.bin
C23_Witness ==
    /\ B_a_bin \in dependencyFiles
    /\ PosixNormalize(M_dot_a_bin) = B_a_bin
    /\ resolveId(M_dot_a_bin, dependencyFiles) = Str(VirtualPrefix \o B_a_bin)
    /\ load(VirtualPrefix \o B_a_bin) = Str(StubModule)

\* the trailing whole path segments of the id are the path
EndsWithSegments(id, path) ==
    \/ id = path
    \/ EndsWith(id, <<"/">> \o path)

\* C29: resolveId answers null for every module id whose normalized path is
\* neither a dependency file nor a path whose trailing whole segments are a
\* dependency file.
C29_NoOverBlocking ==
    \A id \in ModuleIds :
       (\A dep \in dependencyFiles : ~EndsWithSegments(PosixNormalize(id), dep))
       => resolveId(id, dependencyFiles) = Null


\* the files the JSON of a bundled asset names: its buffer and image uris
\* that are not data: uris, joined to the directory of the asset
NamedFiles(fileName, source) ==
    IF source.form \notin {"json", "glb"} THEN {}
    ELSE {PosixJoin(PosixDirname(fileName), u) :
             u \in {v \in Range(source.buffers) \cup Range(source.images) :
                       IsExternalUri(v)}}

\* the bundled assets the last generateBundle call processed
ProcessedBundled ==
    {trace.log[i].name : i \in {j \in 1..Len(trace.log) :
                                  /\ trace.log[j].kind = "bundled"
                                  /\ trace.log[j].outcome # "threw"}}

\* C24: a generateBundle call adds to the dependency-file set exactly the
\* files named by the JSON of the bundled assets it processed, for a .gltf
\* and for a .glb, also when the Buffer of the .glb is a view at a non-zero
\* offset of its ArrayBuffer; and no step removes a path from the set.
C24_DependencyExtraction ==
    [][/\ dependencyFiles \subseteq dependencyFiles'
       /\ builds' # builds =>
             dependencyFiles'
                = dependencyFiles
                    \cup UNION {NamedFiles(f, trace'.host[f].source) :
                                   f \in ProcessedBundled'}]_vars


\* the place of a transform in the order the claim fixes
StageOf(t) ==
    CASE t.name = "prune" -> 1
      [] t.name = "dedup" -> 2
      [] t.name = "quantize" -> 3
      [] t.name = "meshopt" -> 4
      [] t.name = "draco" -> 5
      [] t.name = "textureCompress" -> 6
      [] t.name = "toktx" /\ t.mode = "etc1s" -> 7
      [] t.name = "toktx" /\ t.mode = "uastc" -> 8
      [] OTHER -> 0

\* the slots of a pass: those the user's patterns match when the list is
\* not empty, else those of the built-in pattern of the mode
PassSlots(patterns, mode, default) ==
    IF Len(patterns.a) > 0
    THEN UNION {patterns.a[i].src : i \in 1..Len(patterns.a)}
    ELSE IF mode \in {"auto", "mixed"} THEN default ELSE AllSlots

\* C25: the transforms of an optimized container are, in this order, prune,
\* dedup, quantize (there if and only if geometry.compress is not false), the
\* geometry codec, and the texture step; the texture step begins with the
\* resize to maxSize, every ETC1S or UASTC pass comes after it, in 'auto' and
\* 'mixed' the ETC1S pass and then the UASTC pass, in 'etc1s' and 'uastc' the
\* pass of that name, and each pass has the slots of the user's patterns for
\* its group when there are any and of the built-in pattern otherwise.
C25_TransformOrder ==
    (procOut # NoValue /\ ~ProcMustFail) =>
       LET a    == procOut.value.body.applied
           g    == procIn.options.geometry.o
           x    == procIn.options.textures.o
           mode == x.mode.s
           Stages == [i \in 1..Len(a) |-> StageOf(a[i])]
           Passes(m) == {i \in 1..Len(a) : a[i].name = "toktx" /\ a[i].mode = m}
       IN  /\ \A i \in 1..Len(a) : Stages[i] # 0
           /\ \A i, j \in 1..Len(a) : i < j => Stages[i] < Stages[j]
           /\ {1, 2, 6} \subseteq Range(Stages)
           /\ 3 \in Range(Stages) <=> g.compress # Bool(FALSE)
           /\ \A i \in 1..Len(a) :
                 a[i].name = "textureCompress" => a[i].resize = x.maxSize.v
           /\ mode \in {"auto", "mixed", "etc1s"} => Passes("etc1s") # {}
           /\ mode \in {"auto", "mixed", "uastc"} => Passes("uastc") # {}
           /\ \A i \in Passes("etc1s") :
                 a[i].slots = PassSlots(x.etc1sPatterns, mode, DefaultEtc1sSlots)
           /\ \A i \in Passes("uastc") :
                 a[i].slots = PassSlots(x.uastcPatterns, mode, DefaultUastcSlots)

\* reached: with Draco, the mode 'mixed' and patterns of the user for ETC1S
\* only, the seven transforms from prune to the UASTC pass were applied
C25_Witness ==
    /\ procOut # NoValue
    /\ ~ProcMustFail
    /\ procIn.options.geometry.o.compress = Str("draco")
    /\ procIn.options.textures.o.mode = Str("mixed")
    /\ procIn.options.textures.o.etc1sPatterns = UserEtc1sPatterns
    /\ procIn.options.textures.o.uastcPatterns = Arr(<<>>)
    /\ Len(procOut.value.body.applied) = 7
    /\ procOut.value.body.applied[6].slots = {"baseColorTexture"}
    /\ procOut.value.body.applied[7].slots = DefaultUastcSlots


\* C26: the promise of checkKTXAvailable is settled only by resolve, with
\* true only when the tool exited without error and was not killed, and an
\* awaiting buildStart always comes to the initialization of the processor,
\* whether the tool succeeds, fails, cannot be spawned, makes execFile throw
\* or hangs until the timeout.
C26_ProbeCompletes ==
    /\ [](ktxProbe.promise.settled /\ ktxProbe.promise.value
            => ktxProbe.tool = "succeeds" /\ ktxProbe.elapsed <= ExecTimeout)
    /\ [](ktxProbe.pc = "init" /\ ktxProbe.tool # "none"
            => ktxAvailable = Bool(ktxProbe.tool = "succeeds"
                                     /\ ktxProbe.promise.value))
    /\ \A tool \in ToolBehaviours :
          (ktxProbe.pc = "awaiting" /\ ktxProbe.tool = tool)
             ~> (ktxProbe.pc = "init" /\ ktxProbe.tool = tool)

\* reached: the tool hung, was killed after the timeout, and buildStart went
\* on to the initialization with the answer false
C26_Witness ==
    /\ ktxProbe.pc = "init"
    /\ ktxProbe.tool = "hangs"
    /\ ktxProbe.elapsed = ExecTimeout
    /\ ktxProbe.child = "closed"
    /\ ktxAvailable = Bool(FALSE)
    /\ processedOptions.textures.o.mode = Str("manual")


\* C27: after every generateBundle call, the first and the second of an
\* instance alike, each .ktx2 resource a processed public-source asset
\* offered in that call has an entry at its output path in the bundle of
\* that call.
C27_BundleComplete ==
    trace.ran =>
        \A i \in 1..Len(trace.offered) :
            trace.offered[i].path \in DOMAIN bundle


\* C28: when processBuffer succeeds, the bytes it returns are in the
\* container form the file name selects: JSON text for a name ending in
\* '.gltf' and a binary container for a name ending in '.glb'.
C28_ContainerFormKept ==
    (procOut # NoValue /\ ~ProcMustFail) =>
       procOut.value.form = ContainerForm(procIn.fileName)


\* the uris of the engine's map name pairwise distinct files
DistinctFiles(resources) ==
    \A i, j \in 1..Len(resources) :
       i # j => StripDotSlash(resources[i].uri) # StripDotSlash(resources[j].uri)

\* C30: for a .gltf asset the namespacing step gives the resource uris of
\* the transform engine, which name distinct files, distinct keys: the
\* remapped map has as many entries as the engine's map, and the entry of
\* each uri holds the bytes the engine returned under that uri.
C30_RemapInjective ==
    (/\ remapOut # NoValue
     /\ EndsWith(ToLowerCase(remapIn.gltfName), S_gltf)
     /\ DistinctFiles(remapIn.resources))
       => /\ Len(remapOut.resources) = Len(remapIn.resources)
          /\ \A i \in 1..Len(remapIn.resources) :
                \E j \in 1..Len(remapOut.resources) :
                   /\ remapOut.resources[j].uri
                        = RemappedKey(BinPrefix(remapIn.gltfName),
                                      Ktx2Emitted(remapIn.resources),
                                      remapIn.resources[i].uri)
                   /\ remapOut.resources[j].buf = remapIn.resources[i].buf

=============================================================================
